---- MODULE Spec2Model ----
(***************************************************************************)
(* Firesnap: an object-document mapper over Firestore.                     *)
(*                                                                         *)
(* The module holds three state machines over one set of variables:        *)
(*   SpecValidator  Validator.check applied to bounded schemas and data    *)
(*   Spec           the persistence engine: change tracking, containers,   *)
(*                  Model.save / Model.delete, batches and their callbacks *)
(*   SpecQuery      the query resolver: population cache and cursors       *)
(* JavaScript values are records carrying their constructor name in t.     *)
(***************************************************************************)
EXTENDS Integers, Sequences, FiniteSets, TLC

VARIABLES
    vSchema,    \* Validator.check: the schema argument
    vData,      \* Validator.check: the data argument
    vOptions,   \* Validator.check: the options argument
    vResult,    \* Validator.check: the returned { valid, errors, data }, or NotRun
    fireRef,    \* instance -> the path of its document reference, or NoRef
    props,      \* instance -> its own fields
    changes,    \* instance -> its change-set
    items,      \* owner -> the members of its Collection, in order
    deleted,    \* owner -> the deleted list of its Collection
    store,      \* the committed documents: path -> fields
    nextId,     \* the next auto-generated document id
    docId,      \* instance -> the id given with setId
    batch,      \* the caller's batch: its state, writes, callbacks and timer
    last,       \* the last call and what it returned
    steps,      \* the operations run so far
    query,      \* the query resolver: its descriptor and its population cache
    registry    \* Metadata: the specs, the collections and the key of each model

validatorVars == <<vSchema, vData, vOptions, vResult>>

persistenceVars ==
    <<fireRef, props, changes, items, deleted, store, nextId, docId, batch, last, steps>>

vars == <<validatorVars, persistenceVars, query, registry>>

-----------------------------------------------------------------------------
(* Program constants *)

\* test/fixtures/models/Post.ts: minlength: [5, 'Enter at least 5 characters']
MinTitleLength == 5

-----------------------------------------------------------------------------
(* JavaScript values *)

Undefined == [t |-> "Undefined"]
Null == [t |-> "Null"]
Str(s) == [t |-> "String", v |-> s]
Num(n) == [t |-> "Number", v |-> n]
Bool(b) == [t |-> "Boolean", v |-> b]
Arr(elems) == [t |-> "Array", items |-> elems]
Obj(ctor, fields) == [t |-> ctor, props |-> fields]
DeleteTransform == [t |-> "DeleteTransform"]
\* A model instance as the validator sees it: its constructor name and what
\* its own validate() returns.
Inst(ctor, res) == [t |-> ctor, res |-> res]

EmptyMap == <<>>

\* Metadata constructor: no specs, no collection; no model has a key. handed
\* records the key getModelKey last returned for each model.
NoRegistry ==
    [models |-> EmptyMap, collections |-> EmptyMap, keys |-> EmptyMap, handed |-> EmptyMap]

\* utils.constructorName
constructorName(value) ==
    IF value.t \in {"Undefined", "Null"} THEN "Undefined" ELSE value.t

FieldTransforms ==
    {"NumericIncrementTransform", "DeleteTransform", "ArrayUnionTransform",
     "ArrayRemoveTransform", "ServerTimestampTransform"}

-----------------------------------------------------------------------------
(* Validation rules *)

\* A rule constraint in its three source forms: absent, bare, [value, message].
NoCst == [form |-> "none", msg |-> ""]
Bare(c) == [form |-> "bare", msg |-> "", c |-> c]
WithMsg(c, msg) == [form |-> "array", msg |-> msg, c |-> c]

\* JavaScript truthiness of rules[name]: an array is truthy whatever it holds,
\* a bare false or a bare 0 is falsy.
TruthyFlag(cst) ==
    \/ cst.form = "array"
    \/ cst.form = "bare" /\ cst.c = TRUE

TruthyNumber(cst) ==
    \/ cst.form = "array"
    \/ cst.form = "bare" /\ cst.c # 0

\* Validator.constraint
constraint(cst, message) ==
    IF cst.form = "array" THEN [value |-> cst.c, message |-> cst.msg]
    ELSE [value |-> cst.c, message |-> message]

NoValidate == [form |-> "none", ok |-> {}, msg |-> ""]
NoEnum == [form |-> "none", vals |-> {}]

\* A compiled schema field with every optional rule absent.
Rule(type) ==
    [type |-> type, required |-> NoCst, null |-> FALSE, enum |-> NoEnum,
     min |-> NoCst, max |-> NoCst, minlength |-> NoCst, maxlength |-> NoCst,
     validate |-> NoValidate, write |-> "", unique |-> NoCst,
     model |-> "", of |-> "", sub |-> EmptyMap]

\* ValidationRules, in the order of the source object.
RuleNames == <<"min", "max", "minlength", "maxlength">>

validator(name, value, c) ==
    CASE name = "min" -> value.v >= c
      [] name = "max" -> value.v <= c
      [] name = "minlength" -> Len(value.v) >= c
      [] name = "maxlength" -> Len(value.v) <= c

ruleMessage(name) ==
    CASE name = "min" -> "must be greater than"
      [] name = "max" -> "must be less than"
      [] name = "minlength" -> "must be at least characters long"
      [] name = "maxlength" -> "must be less than characters long"

\* The built-in rules loop of Validator.check: the message of the first rule
\* (in source order) that the value fails, or "" when it passes them all.
RECURSIVE BuiltInError(_, _, _)
BuiltInError(rules, value, i) ==
    IF i > Len(RuleNames) THEN ""
    ELSE LET name == RuleNames[i]
             cst == rules[name]
         IN IF TruthyNumber(cst) /\ ~validator(name, value, cst.c)
            THEN (IF cst.form = "array" THEN cst.msg ELSE ruleMessage(name))
            ELSE BuiltInError(rules, value, i + 1)

-----------------------------------------------------------------------------
(* Validator.check *)

Keys(f) == DOMAIN f

\* { field.key : errors } of a nested result, under the parent's field path.
Prefixed(prefix, errors) ==
    { <<prefix \o e[1], e[2]>> : e \in errors }

ErrorKeys(errors) == { e[1] : e \in errors }

NotRun == [valid |-> FALSE, errors |-> {}, data |-> EmptyMap, ran |-> FALSE]

RECURSIVE check(_, _, _)
RECURSIVE FieldCheck(_, _, _, _, _)
RECURSIVE ItemsCheck(_, _, _, _)

\* The Collection and Array-of-Reference loops: validate the members in order,
\* stop at the first member that is of the wrong type or invalid.
ItemsCheck(rules, field, elems, i) ==
    IF i > Len(elems) THEN [errors |-> {}, stop |-> FALSE]
    ELSE LET item == elems[i]
         IN IF constructorName(item) # rules.model
            THEN [errors |-> {<<(<<field, i - 1>>), "Invalid type">>}, stop |-> TRUE]
            ELSE LET own == Prefixed(<<field, i - 1>>, item.res.errors)
                 IN IF ~item.res.valid
                    THEN [errors |-> own, stop |-> TRUE]
                    ELSE LET rest == ItemsCheck(rules, field, elems, i + 1)
                         IN [errors |-> own \cup rest.errors, stop |-> rest.stop]

\* One iteration of the fields: loop. errors: the (path, message) pairs it
\* records; keep: whether the field reaches cleaned; out: what cleaned[field]
\* is then (data[field], which the SubModel case has overwritten).
FieldCheck(schema, data, field, options, required) ==
    LET value == data[field]
        skip == [errors |-> {}, keep |-> FALSE, out |-> value]
        fail(msg) == [errors |-> {<<(<<field>>), msg>>}, keep |-> FALSE, out |-> value]
        nested(errs) == [errors |-> errs, keep |-> FALSE, out |-> value]
    IN
    IF field \notin Keys(schema) \/ field \in required THEN skip
    ELSE
    LET declared == schema[field]
        \* "Allow standalone validation without type."
        rules == IF declared.type = ""
                 THEN [declared EXCEPT !.type = constructorName(value)]
                 ELSE declared
        \* Enum, built-in, custom and admin rules, then cleaned[field] = data[field].
        tail(out) ==
            IF rules.enum.form # "none"
               /\ ~(value.t \in {"String", "Number"} /\ value.v \in rules.enum.vals)
            THEN fail("Invalid value")
            ELSE LET builtIn == IF value.t \in {"String", "Number"}
                                THEN BuiltInError(rules, value, 1) ELSE ""
                 IN IF builtIn # "" THEN fail(builtIn)
                    ELSE IF rules.validate.form # "none" /\ value \notin rules.validate.ok
                    THEN fail(IF rules.validate.msg # "" THEN rules.validate.msg
                              ELSE "Invalid value")
                    ELSE IF rules.write = "admin"
                            /\ options.authValue \notin {"null", "undefined", "true"}
                    THEN fail("Admin permission required")
                    ELSE [errors |-> {}, keep |-> TRUE, out |-> out]
    IN
    IF value.t = "Null"
    THEN (IF rules.null = TRUE THEN [errors |-> {}, keep |-> TRUE, out |-> value]
          ELSE fail("Null value not allowed for this field"))
    ELSE IF value.t = "Undefined" THEN fail("Value is undefined")
    ELSE IF value.t \in FieldTransforms THEN [errors |-> {}, keep |-> TRUE, out |-> value]
    ELSE IF rules.type \notin {"Reference", "SubModel"} /\ constructorName(value) # rules.type
    THEN fail("Invalid type")
    ELSE
    CASE rules.type = "Reference" ->
            IF value.t # rules.model THEN fail("Invalid type")
            ELSE IF ~value.res.valid
            THEN nested(Prefixed(<<field>>, value.res.errors))
            ELSE LET t == tail(value)
                 IN [t EXCEPT !.errors = @ \cup Prefixed(<<field>>, value.res.errors)]
      [] rules.type = "Collection" ->
            LET r == ItemsCheck(rules, field, value.items, 1)
            IN IF r.stop THEN nested(r.errors)
               ELSE LET t == tail(value) IN [t EXCEPT !.errors = @ \cup r.errors]
      [] rules.type = "SubModel" ->
            IF rules.sub = EmptyMap THEN tail(value)
            ELSE LET result == check(rules.sub, value.props, options)
                 IN IF ~result.valid
                    THEN nested(Prefixed(<<field>>, result.errors))
                    \* data[field] = result.data
                    ELSE tail(Obj("Object", result.data))
      [] rules.type = "Object" /\ rules.sub # EmptyMap ->
            LET result == check(rules.sub, value.props, options)
            IN IF ~result.valid
               THEN nested(Prefixed(<<field>>, result.errors))
               ELSE tail(value)
      [] rules.type = "Array" /\ rules.of = "Reference" ->
            LET r == ItemsCheck(rules, field, value.items, 1)
            IN IF r.stop THEN nested(r.errors)
               ELSE LET t == tail(value) IN [t EXCEPT !.errors = @ \cup r.errors]
      [] rules.type = "Array" /\ rules.of # "Reference" ->
            IF \E i \in 1..Len(value.items) : constructorName(value.items[i]) # rules.of
            THEN LET bad == CHOOSE i \in 1..Len(value.items) :
                                /\ constructorName(value.items[i]) # rules.of
                                /\ \A j \in 1..(i - 1) :
                                       constructorName(value.items[j]) = rules.of
                 IN nested({<<(<<field, bad - 1>>), "Invalid type">>})
            ELSE tail(value)
      [] OTHER -> tail(value)

\* Mutant of check: the cleaned map keeps every field of the input.
checkKeepsEveryField(schema, data, options) ==
    LET required ==
            IF options.newDocument
            THEN { f \in Keys(schema) :
                     /\ TruthyFlag(schema[f].required)
                     /\ (f \notin Keys(data) \/ data[f] = Undefined \/ data[f] = Str(""))
                     /\ constraint(schema[f].required, "This field is required").value = TRUE }
            ELSE {}
        requiredErrors ==
            { <<(<<f>>), constraint(schema[f].required, "This field is required").message>> :
                f \in required }
        results == [f \in Keys(data) |-> FieldCheck(schema, data, f, options, required)]
        errors == requiredErrors \cup UNION { results[f].errors : f \in Keys(data) }
    IN [valid |-> errors = {},
        errors |-> errors,
        data |-> [f \in Keys(data) |-> results[f].out],
        ran |-> TRUE]

\* Mutant of check: required is enforced whatever options.newDocument says.
checkRequiresAlways(schema, data, options) ==
    LET required ==
            { f \in Keys(schema) :
                /\ TruthyFlag(schema[f].required)
                /\ (f \notin Keys(data) \/ data[f] = Undefined \/ data[f] = Str(""))
                /\ constraint(schema[f].required, "This field is required").value = TRUE }
        requiredErrors ==
            { <<(<<f>>), constraint(schema[f].required, "This field is required").message>> :
                f \in required }
        results == [f \in Keys(data) |-> FieldCheck(schema, data, f, options, required)]
        errors == requiredErrors \cup UNION { results[f].errors : f \in Keys(data) }
        kept == { f \in Keys(data) : results[f].keep }
    IN [valid |-> errors = {},
        errors |-> errors,
        data |-> [f \in kept |-> results[f].out],
        ran |-> TRUE]

\* Validator.check(schema, data, options): errors is the set of
\* (path, message) pairs of the error map, data the cleaned map.
check(schema, data, options) ==
    LET \* "Required fields (must be first)."
        required ==
            IF options.newDocument
            THEN { f \in Keys(schema) :
                     /\ TruthyFlag(schema[f].required)
                     /\ (f \notin Keys(data) \/ data[f] = Undefined \/ data[f] = Str(""))
                     /\ constraint(schema[f].required, "This field is required").value = TRUE }
            ELSE {}
        requiredErrors ==
            { <<(<<f>>), constraint(schema[f].required, "This field is required").message>> :
                f \in required }
        results == [f \in Keys(data) |-> FieldCheck(schema, data, f, options, required)]
        errors == requiredErrors \cup UNION { results[f].errors : f \in Keys(data) }
        kept == { f \in Keys(data) : results[f].keep }
    IN [valid |-> errors = {},
        errors |-> errors,
        data |-> [f \in kept |-> results[f].out],
        ran |-> TRUE]

-----------------------------------------------------------------------------
(* Models, entities and documents *)

\* The model instances of a run: one Post, two Users, two Comments.
Posts == {"p"}
Users == {"u1", "u2"}
Comments == {"c1", "c2"}
Entities == Posts \cup Users \cup Comments

\* The documents a bulk call reads at most: User.find().limit(MaxResults).
MaxResults == 2

\* The User instances a bulk call builds from the documents it reads.
Result(k) == "r" \o ToString(k)
FetchedUsers == { Result(k) : k \in 1..MaxResults }

TypeOf(e) ==
    IF e \in Posts THEN "Post"
    ELSE IF e \in Users \cup FetchedUsers THEN "User"
    ELSE "Comment"

\* Model.path: the path given to @Schema, else the pluralised model name.
PathOf(type) ==
    CASE type = "Post" -> "test_posts"
      [] type = "User" -> "test_users"
      [] type = "Comment" -> "comments"
      [] type = "Topic" -> "test_topics"

\* The compiled schemas of the fixtures, restricted to the fields of a run.
ModelSchema(type) ==
    CASE type = "Post" ->
            [title |-> [Rule("String") EXCEPT
                          !.minlength = WithMsg(MinTitleLength, "Enter at least 5 characters"),
                          !.required = WithMsg(TRUE, "Please enter a title")],
             user |-> [Rule("Reference") EXCEPT !.model = "User", !.required = Bare(FALSE)],
             comments |-> [Rule("Collection") EXCEPT !.model = "Comment"]]
      [] type = "User" ->
            [username |-> [Rule("String") EXCEPT !.unique = Bare(TRUE)]]
      [] type = "Comment" ->
            [content |-> Rule("String")]

\* A document path is the sequence of its segments; null is the empty path.
NoRef == <<>>
\* firestore.collection(path).doc(id), for a parent document or a root.
DocPath(parent, collection, id) == parent \o <<collection, id>>

\* A model instance held in a field, a Collection held in a field (its
\* members and its deleted list live with the owner), a DocumentReference.
Ptr(e) == [t |-> TypeOf(e), e |-> e]
Coll(owner) == [t |-> "Collection", owner |-> owner]
DocumentReference(path) == [t |-> "DocumentReference", path |-> path]

\* The populated primary key of an instance.
DocId(id) == [t |-> "Id", id |-> id]

\* utils.isModelInstance
isModelInstance(value) ==
    /\ value.t \in {"Post", "User", "Comment", "Topic"}
    /\ "e" \in DOMAIN value \/ "ref" \in DOMAIN value

\* JavaScript truthiness of a field value; an absent field reads undefined.
Truthy(value) ==
    CASE value.t = "String" -> value.v # ""
      [] value.t = "Number" -> value.v # 0
      [] value.t = "Boolean" -> value.v
      [] value.t \in {"Undefined", "Null"} -> FALSE
      [] OTHER -> TRUE

\* Sessions: the batch save and delete create for themselves, a caller's batch,
\* a caller's transaction.
NoSession == "null"
Internal == "internal"
Batch1 == "b1"
Txn1 == "t1"

Range(s) == { s[i] : i \in 1..Len(s) }

\* Array.prototype.splice(i, 1), with i counted from 0.
Splice(s, i) == SubSeq(s, 1, i) \o SubSeq(s, i + 2, Len(s))

-----------------------------------------------------------------------------
(* Write sessions and the callback registry *)

\* WriteBatch.set / update / delete: the write is appended to the session.
AddOp(w, sid, kind, path, data) ==
    [w EXCEPT !.ops[sid] = Append(@, [kind |-> kind, path |-> path, data |-> data])]

\* Metadata.storeCallback
storeCallback(w, sid, e, method, args) ==
    [w EXCEPT !.cbs[sid] = Append(@, [model |-> e, method |-> method, args |-> args])]

\* Metadata.clearCallbacks
clearCallbacks(w, sid) == [w EXCEPT !.cbs[sid] = <<>>]

\* One write applied to the documents. update fails on a missing document.
ApplyOp(docs, op) ==
    CASE op.kind = "set" ->
            [path \in DOMAIN docs \cup {op.path} |->
                IF path = op.path THEN op.data ELSE docs[path]]
      [] op.kind = "update" ->
            [docs EXCEPT ![op.path] = op.data @@ @]
      [] op.kind = "delete" ->
            [path \in DOMAIN docs \ {op.path} |-> docs[path]]

\* WriteBatch.commit of the driver: all the writes or none.
RECURSIVE ApplyOps(_, _, _)
ApplyOps(docs, ops, i) ==
    IF i > Len(ops) THEN [store |-> docs, ok |-> TRUE]
    ELSE IF ops[i].kind = "update" /\ ops[i].path \notin DOMAIN docs
    THEN [store |-> docs, ok |-> FALSE]
    ELSE ApplyOps(ApplyOp(docs, ops[i]), ops, i + 1)

\* Model.resetChanges
resetChanges(w, e) == [w EXCEPT !.changes[e] = EmptyMap]

\* Model.resetProperties: every symbol is null and every field is deleted.
resetProperties(w, e) ==
    [w EXCEPT !.fireRef[e] = NoRef, !.docId[e] = Null, !.props[e] = EmptyMap,
              !.changes[e] = EmptyMap]

\* cb.model[cb.method](...cb.args): the afterSave and afterDelete hooks are
\* recorded in ran; the reset of an instance that a bulk call built and that
\* nothing holds any more changes nothing.
RunCallback(w, cb) ==
    CASE cb.method \in {"resetChanges", "resetProperties"} /\ cb.model \notin DOMAIN w.changes -> w
      [] cb.method = "resetChanges" -> resetChanges(w, cb.model)
      [] cb.method = "resetProperties" -> resetProperties(w, cb.model)
      [] OTHER -> [w EXCEPT !.ran = Append(@, [model |-> cb.model, method |-> cb.method])]

\* Storage.getCallbacks(sessId).forEach(...), in the order they were queued.
RECURSIVE RunCallbacks(_, _, _)
RunCallbacks(w, cbs, i) ==
    IF i > Len(cbs) THEN w
    ELSE RunCallbacks(RunCallback(w, cbs[i]), cbs, i + 1)

\* The commit of the proxy with the callbacks called after a failed commit too.
CommittedThenCallbacks(w, sid, r) ==
    [w |-> clearCallbacks(RunCallbacks([w EXCEPT !.store = IF r.ok THEN r.store ELSE @,
                                                 !.commits = Append(@, sid)],
                                       w.cbs[sid], 1), sid),
     ok |-> r.ok]

\* The commit of Firesnap.batch's proxy once the driver's commit has returned
\* r: the queued callbacks when it succeeded, then clearCallbacks either way.
Committed(w, sid, r) ==
    IF r.ok
    THEN [w |-> clearCallbacks(RunCallbacks([w EXCEPT !.store = r.store,
                                                      !.commits = Append(@, sid)],
                                            w.cbs[sid], 1), sid),
          ok |-> TRUE]
    ELSE [w |-> clearCallbacks([w EXCEPT !.commits = Append(@, sid)], sid), ok |-> FALSE]

commit(w, sid) == Committed(w, sid, ApplyOps(w.store, w.ops[sid], 1))

-----------------------------------------------------------------------------
(* Model.validate, Model.delete, Model.save *)

\* `This ${field} is already taken`
uniqueMessage(field) == "This " \o field \o " is already taken"

\* Model.getId: the last segment of the reference.
getId(w, e) == w.fireRef[e][Len(w.fireRef[e])]

\* constructor.find(conditions).limit(1).get(): the committed documents of
\* the model's collection that hold the value, this one excepted.
FindTaken(w, e, field, value) ==
    { path \in DOMAIN w.store :
        /\ Len(path) = 2
        /\ path[1] = PathOf(TypeOf(e))
        /\ field \in DOMAIN w.store[path]
        /\ w.store[path][field] = value
        /\ (w.fireRef[e] = NoRef \/ path[2] # getId(w, e)) }

\* "Check the unique rule": the fields of the change-set whose value is
\* truthy, has no error yet, and is held by another document.
Taken(w, e, schema, data, result) ==
    { f \in DOMAIN schema :
        /\ schema[f].unique # NoCst
        /\ f \in DOMAIN data
        /\ Truthy(data[f])
        /\ <<f>> \notin ErrorKeys(result.errors)
        /\ constraint(schema[f].unique, uniqueMessage(f)).value = TRUE
        /\ FindTaken(w, e, f, data[f]) # {} }

\* The result of Validator.check with the errors of the taken fields.
WithUnique(schema, result, taken) ==
    [valid |-> result.valid /\ taken = {},
     errors |-> result.errors \cup
                { <<(<<f>>), constraint(schema[f].unique, uniqueMessage(f)).message>> :
                    f \in taken },
     data |-> result.data]

UniqueChecked(w, e, schema, data, result) ==
    WithUnique(schema, result, Taken(w, e, schema, data, result))

RECURSIVE validate(_, _)

\* A value of the change-set as Validator.check meets it: a model instance
\* answers validate(), a Collection holds its members.
Seen(w, value) ==
    IF isModelInstance(value) THEN Inst(value.t, validate(w, value.e))
    ELSE IF value.t = "Collection"
    THEN [t |-> "Collection",
          items |-> [i \in 1..Len(w.items[value.owner]) |->
                       Inst(TypeOf(w.items[value.owner][i]),
                            validate(w, w.items[value.owner][i]))]]
    ELSE value

Validated(w, e, schema, data) ==
    UniqueChecked(w, e, schema, data,
                  check(schema, data,
                        [newDocument |-> w.fireRef[e] = NoRef, authValue |-> "null"]))

\* Model.validate: Validator.check on the change-set, then the unique rule.
validate(w, e) ==
    Validated(w, e, ModelSchema(TypeOf(e)),
              [f \in DOMAIN w.changes[e] |-> Seen(w, w.changes[e][f])])

\* SaveParams after the defaults. before is what an overriding beforeSave or
\* beforeDelete hook returns in this call.
SaveParams(callbacks, doValidate, session, before) ==
    [callbacks |-> callbacks, validate |-> doValidate, overwrite |-> FALSE,
     session |-> session, recurring |-> FALSE, parentRef |-> NoRef,
     fieldName |-> "", before |-> before]

\* DeleteParams after the defaults.
DeleteParams(callbacks, session, before) ==
    [callbacks |-> callbacks, session |-> session, recurring |-> FALSE, before |-> before]

\* The hooks: the base class returns true, the Post fixture overrides them.
beforeSave(e, params) == IF e \in Posts THEN params.before ELSE TRUE
beforeDelete(e, params) == IF e \in Posts THEN params.before ELSE TRUE

\* getSession(params), or Firesnap.batch(true) when it is null.
SessionOf(params) == IF params.session = NoSession THEN Internal ELSE params.session

\* Own fields in insertion order.
FieldOrder(type) ==
    CASE type = "Post" -> <<"id", "title", "user", "comments">>
      [] type = "User" -> <<"id", "username">>
      [] type = "Comment" -> <<"id", "content">>

\* The own fields of e holding a model instance, in order: the requests.
ReferenceFields(w, e) ==
    SelectSeq(FieldOrder(TypeOf(e)),
              LAMBDA f : f \in DOMAIN w.props[e] /\ isModelInstance(w.props[e][f]))

\* The own fields of e holding a Collection, in order.
CollectionFields(w, e) ==
    SelectSeq(FieldOrder(TypeOf(e)),
              LAMBDA f : f \in DOMAIN w.props[e] /\ w.props[e][f].t = "Collection")

\* The documents of the sub-collections of a document, in the committed store.
SubDocs(docs, path) ==
    { q \in DOMAIN docs : Len(q) = Len(path) + 2 /\ SubSeq(q, 1, Len(path)) = path }

\* Collection.delete for the sub-collections of a document: a delete write
\* for each document found, then for those of its own sub-collections.
RECURSIVE CollectionDelete(_, _, _)
RECURSIVE CollectionDeleteOneLevel(_, _, _)

\* Collection.delete without the recursion into the documents it finds.
CollectionDeleteOneLevel(w, sid, docs) ==
    IF docs = {} THEN w
    ELSE CollectionDeleteOneLevel(AddOp(w, sid, "delete", CHOOSE d \in docs : TRUE, EmptyMap),
                                  sid, docs \ {CHOOSE d \in docs : TRUE})

CollectionDelete(w, sid, docs) ==
    IF docs = {} THEN w
    ELSE CollectionDelete(
             CollectionDelete(AddOp(w, sid, "delete", CHOOSE d \in docs : TRUE, EmptyMap),
                              sid, SubDocs(w.store, CHOOSE d \in docs : TRUE)),
             sid, docs \ {CHOOSE d \in docs : TRUE})

NoErrors == {}

\* Model.delete, from "Commit internal session" on.
deleteCommitted(c, e) ==
    IF c.ok THEN [w |-> resetProperties(c.w, e), ret |-> "true", errors |-> NoErrors]
    ELSE [w |-> c.w, ret |-> "CommitError", errors |-> NoErrors]

\* Model.delete, from "After delete callback" on.
deleteCallbacks(w, e, params, sid) ==
    IF sid = Internal /\ ~params.recurring
    THEN deleteCommitted(commit(w, sid), e)
    ELSE [w |-> storeCallback(w, sid, e, "resetProperties", <<>>),
          ret |-> "true", errors |-> NoErrors]

\* Model.delete: the afterDelete callback is queued.
deleteQueued(w, e, params, sid) ==
    IF params.callbacks \in {"true", "afterDelete"}
    THEN storeCallback(w, sid, e, "afterDelete", <<>>)
    ELSE w

\* Model.delete without the check of the reference.
deleteWithoutReference(w, e, params) ==
    IF params.callbacks \in {"true", "beforeDelete"} /\ ~beforeDelete(e, params)
    THEN [w |-> w, ret |-> "false", errors |-> NoErrors]
    ELSE deleteCallbacks(
             deleteQueued(AddOp(w, SessionOf(params), "delete", w.fireRef[e], EmptyMap),
                          e, params, SessionOf(params)),
             e, params, SessionOf(params))

\* Model.delete
delete(w, e, params) ==
    IF params.callbacks \in {"true", "beforeDelete"} /\ ~beforeDelete(e, params)
    THEN [w |-> w, ret |-> "false", errors |-> NoErrors]
    ELSE IF w.fireRef[e] = NoRef
    THEN [w |-> w, ret |-> "false", errors |-> NoErrors]
    ELSE deleteCallbacks(
             deleteQueued(
                 AddOp(CollectionDelete(w, SessionOf(params), SubDocs(w.store, w.fireRef[e])),
                       SessionOf(params), "delete", w.fireRef[e], EmptyMap),
                 e, params, SessionOf(params)),
             e, params, SessionOf(params))

Thrown == {"ValidationError", "TypeError", "CommitError"}

\* No error was thrown.
NoThrow == [ret |-> "", errors |-> NoErrors]

\* The error a Promise.all rejects with: the earlier rejection wins.
FirstThrown(thrown, r) ==
    IF thrown.ret = "" /\ r.ret \in Thrown THEN [ret |-> r.ret, errors |-> r.errors]
    ELSE thrown

RECURSIVE save(_, _, _)
RECURSIVE SaveReferences(_, _, _, _, _, _)
RECURSIVE DeletePending(_, _, _, _, _, _)
RECURSIVE SaveMembers(_, _, _, _, _, _)
RECURSIVE SaveCollections(_, _, _, _, _, _)

\* The params of a nested call without recurring: true.
RecParamsNotRecurring(params) == [params EXCEPT !.session = SessionOf(params)]

\* Object.assign({}, params, { recurring: true, session: session })
RecParams(params) == [params EXCEPT !.recurring = TRUE, !.session = SessionOf(params)]

\* "Save updated/created references" that saves no reference at all.
SkipReferences(w, e, fields, i, recParams, thrown) == [w |-> w, thrown |-> thrown]

\* The rest of the requests once one save has returned r.
ReferenceSaved(r, e, fields, i, recParams, thrown) ==
    SaveReferences(r.w, e, fields, i + 1, recParams, FirstThrown(thrown, r))

\* "Save updated/created references": every model instance among the own
\* fields; one that is persisted and unchanged is a request without a save.
SaveReferences(w, e, fields, i, recParams, thrown) ==
    IF i > Len(fields) THEN [w |-> w, thrown |-> thrown]
    ELSE IF /\ w.fireRef[w.props[e][fields[i]].e] # NoRef
            /\ w.changes[w.props[e][fields[i]].e] = EmptyMap
    THEN SaveReferences(w, e, fields, i + 1, recParams, thrown)
    ELSE ReferenceSaved(save(w, w.props[e][fields[i]].e, recParams),
                        e, fields, i, recParams, thrown)

\* The rest of the deleted list once one delete has returned r.
PendingDeleted(r, owner, i, n, recParams, thrown) ==
    DeletePending(r.w, owner, i + 1, n, recParams, FirstThrown(thrown, r))

\* for (const i in collection.deleted): the keys are those of the list as the
\* loop starts, and a key that a splice has removed by its turn is skipped.
DeletePending(w, owner, i, n, recParams, thrown) ==
    IF i >= n THEN [w |-> w, thrown |-> thrown]
    ELSE IF i >= Len(w.deleted[owner])
    THEN DeletePending(w, owner, i + 1, n, recParams, thrown)
    ELSE IF w.fireRef[w.deleted[owner][i + 1]] = NoRef
    THEN DeletePending([w EXCEPT !.deleted[owner] = Splice(@, i)],
                       owner, i + 1, n, recParams, thrown)
    ELSE PendingDeleted(delete(w, w.deleted[owner][i + 1], recParams),
                        owner, i, n, recParams, thrown)

\* The rest of the members once one save has returned r.
MemberSaved(r, owner, field, i, recParams, thrown) ==
    SaveMembers(r.w, owner, field, i + 1, recParams, FirstThrown(thrown, r))

\* for (const model of collection): the members with a change-set are saved
\* under the owner's reference.
SaveMembers(w, owner, field, i, recParams, thrown) ==
    IF i > Len(w.items[owner]) THEN [w |-> w, thrown |-> thrown]
    ELSE IF w.changes[w.items[owner][i]] = EmptyMap
    THEN SaveMembers(w, owner, field, i + 1, recParams, thrown)
    ELSE MemberSaved(save(w, w.items[owner][i],
                          [recParams EXCEPT !.parentRef = w.fireRef[owner],
                                            !.fieldName = field]),
                     owner, field, i, recParams, thrown)

\* One Collection field: its deleted list d is done, then its members.
CollectionDeleted(d, e, fields, k, recParams) ==
    SaveMembers(d.w, d.w.props[e][fields[k]].owner, fields[k], 1, recParams, d.thrown)

CollectionSaved(m, e, fields, k, recParams) ==
    SaveCollections(m.w, e, fields, k + 1, recParams, m.thrown)

\* "Save sub-collections", for the Collection fields from the k-th on.
SaveCollections(w, e, fields, k, recParams, thrown) ==
    IF k > Len(fields) THEN [w |-> w, thrown |-> thrown]
    ELSE CollectionSaved(
             CollectionDeleted(
                 DeletePending(w, w.props[e][fields[k]].owner, 0,
                               Len(w.deleted[w.props[e][fields[k]].owner]),
                               recParams, thrown),
                 e, fields, k, recParams),
             e, fields, k, recParams)

\* "Auto set the id for reference."
PopulateId(w, e, exists) ==
    IF exists THEN w
    ELSE [w EXCEPT !.props[e] = ("id" :> DocId(getId(w, e))) @@ @]

\* Model.save once the internal session's commit has returned c.
saveCommitted(c, e, exists) ==
    IF c.ok
    THEN [w |-> PopulateId(resetChanges(c.w, e), e, exists), ret |-> "true",
          errors |-> NoErrors]
    ELSE [w |-> c.w, ret |-> "CommitError", errors |-> NoErrors]

\* Model.save, "Commit internal session".
saveCommit(w, e, params, exists) ==
    IF ~params.recurring /\ SessionOf(params) = Internal
    THEN saveCommitted(commit(w, Internal), e, exists)
    ELSE [w |-> PopulateId(storeCallback(w, SessionOf(params), e, "resetChanges", <<>>),
                           e, exists),
          ret |-> "true", errors |-> NoErrors]

\* Model.save, "After save callback", once the sub-collections returned subs.
saveCallbacks(subs, e, params, exists) ==
    IF subs.thrown.ret # ""
    THEN [w |-> subs.w, ret |-> subs.thrown.ret, errors |-> subs.thrown.errors]
    ELSE saveCommit(IF params.callbacks \in {"true", "afterSave"}
                    THEN storeCallback(subs.w, SessionOf(params), e, "afterSave", <<~exists>>)
                    ELSE subs.w,
                    e, params, exists)

\* The reference of a new document: under the parent when there is one, and
\* with the id given with setId when there is one.
NewDocRef(w, e, params) ==
    DocPath(params.parentRef,
            IF params.parentRef # NoRef THEN params.fieldName ELSE PathOf(TypeOf(e)),
            IF Truthy(w.docId[e]) THEN w.docId[e].id ELSE w.nextId)

\* The document write with session.set for every persisted instance.
WriteDocumentWithSet(w, e, params, fireData) ==
    IF w.fireRef[e] # NoRef
    THEN AddOp(w, SessionOf(params), "set", w.fireRef[e], fireData)
    ELSE [AddOp(w, SessionOf(params), "set", NewDocRef(w, e, params), fireData) EXCEPT
              !.fireRef[e] = NewDocRef(w, e, params),
              !.nextId = IF Truthy(w.docId[e]) THEN @ ELSE @ + 1]

\* session.update / session.set of the document; a new one gets its reference.
WriteDocument(w, e, params, fireData) ==
    IF w.fireRef[e] # NoRef
    THEN AddOp(w, SessionOf(params), IF params.overwrite THEN "set" ELSE "update",
               w.fireRef[e], fireData)
    ELSE [AddOp(w, SessionOf(params), "set", NewDocRef(w, e, params), fireData) EXCEPT
              !.fireRef[e] = NewDocRef(w, e, params),
              !.nextId = IF Truthy(w.docId[e]) THEN @ ELSE @ + 1]

\* Model.save, "Save the document": no write and false when fireData is empty.
saveDocument(w, e, params, fireData) ==
    IF fireData = EmptyMap THEN [w |-> w, ret |-> "false", errors |-> NoErrors]
    ELSE saveCallbacks(
             SaveCollections(WriteDocument(w, e, params, fireData), e,
                             CollectionFields(w, e), 1, RecParams(params), NoThrow),
             e, params, w.fireRef[e] # NoRef)

\* Object.assign(data, expandObject(flatData)), then Converter.toFirestore:
\* every request is a DocumentReference, a Collection is left out.
FireData(w, e, data, requests) ==
    [f \in { g \in DOMAIN data : data[g].t # "Collection" } \cup Range(requests) |->
        IF f \in Range(requests)
        THEN DocumentReference(w.fireRef[w.props[e][f].e])
        ELSE w.changes[e][f]]

\* Model.save once the requests have settled: docRef.path of a request whose
\* instance has no reference is a TypeError.
saveReferenced(refs, e, params, data, requests) ==
    IF refs.thrown.ret # ""
    THEN [w |-> refs.w, ret |-> refs.thrown.ret, errors |-> refs.thrown.errors]
    ELSE IF \E i \in 1..Len(requests) : refs.w.fireRef[refs.w.props[e][requests[i]].e] = NoRef
    THEN [w |-> refs.w, ret |-> "TypeError", errors |-> NoErrors]
    ELSE saveDocument(refs.w, e, params, FireData(refs.w, e, data, requests))

\* Model.save once the change-set is validated and sanitized.
saveValidated(w, e, params, result) ==
    IF ~result.valid
    THEN [w |-> w, ret |-> "ValidationError", errors |-> ErrorKeys(result.errors)]
    ELSE saveReferenced(
             SaveReferences(w, e, ReferenceFields(w, e), 1,
                            RecParams(params), NoThrow),
             e, params, result.data, ReferenceFields(w, e))

\* Model.save: ret is the boolean returned or the error thrown, errors the
\* fields of a ValidationError.
save(w, e, params) ==
    IF params.callbacks \in {"true", "afterSave"} /\ ~beforeSave(e, params)
    THEN [w |-> w, ret |-> "false", errors |-> NoErrors]
    ELSE saveValidated(w, e, params,
                       IF params.validate THEN validate(w, e)
                       ELSE [valid |-> TRUE, errors |-> {}, data |-> w.changes[e]])

\* this.get() of User.find().limit(n): the documents of the collection, in
\* the order of their names.
Listed(docs, collection, n) ==
    LET ids == { path[2] : path \in { q \in DOMAIN docs : Len(q) = 2 /\ q[1] = collection } }
        Nth(k) == CHOOSE i \in ids : Cardinality({ j \in ids : j < i }) = k - 1
    IN  [k \in 1..(IF Cardinality(ids) < n THEN Cardinality(ids) ELSE n) |->
            DocPath(NoRef, collection, Nth(k))]

\* Converter.fromFirestore on the documents read: new model(formatted, doc)
\* for each, with the primary key populated.
Instantiated(w, paths) ==
    LET Held(r) == paths[CHOOSE k \in 1..Len(paths) : Result(k) = r]
        names == { Result(k) : k \in 1..Len(paths) }
    IN  [w EXCEPT !.fireRef = [r \in names |-> Held(r)] @@ @,
                  !.props = [r \in names |-> ("id" :> DocId(Held(r)[2])) @@ w.store[Held(r)]] @@ @,
                  !.changes = [r \in names |-> EmptyMap] @@ @,
                  !.docId = [r \in names |-> Undefined] @@ @]

\* Once the bulk call has returned, the instances it built are dropped.
Dropped(w) ==
    [w EXCEPT !.fireRef = [e \in Entities |-> @[e]],
              !.props = [e \in Entities |-> @[e]],
              !.changes = [e \in Entities |-> @[e]],
              !.docId = [e \in Entities |-> @[e]]]

RECURSIVE UpdateEach(_, _, _, _, _, _)

\* The rest of the instances once one save has returned r.
UpdateSaved(r, paths, k, data, params, thrown) ==
    UpdateEach(r.w, paths, k + 1, data, params, FirstThrown(thrown, r))

\* Query.update, useModel: Object.assign(model, data); await model.save(params)
\* for each instance, until one throws.
UpdateEach(w, paths, k, data, params, thrown) ==
    IF k > Len(paths) \/ thrown.ret # "" THEN [w |-> w, thrown |-> thrown]
    ELSE UpdateSaved(save([w EXCEPT !.props[Result(k)] = data @@ @,
                                    !.changes[Result(k)] = data @@ @],
                          Result(k), params),
                     paths, k, data, params, thrown)

\* Query.update and Query.delete from the writes on: the session is committed
\* when the call made it; with the caller's session nothing is returned.
BulkCommitted(r, sid) ==
    IF r.thrown.ret # ""
    THEN [w |-> Dropped(r.w), ret |-> r.thrown.ret, errors |-> r.thrown.errors]
    ELSE IF sid # Internal
    THEN [w |-> Dropped(r.w), ret |-> "undefined", errors |-> NoErrors]
    ELSE [w |-> Dropped(commit(r.w, Internal).w),
          ret |-> IF commit(r.w, Internal).ok THEN "true" ELSE "CommitError",
          errors |-> NoErrors]

\* Query.update on User.find().limit(MaxResults): the schema of User has a
\* unique field, so every document is updated through a model instance.
update(w, data, params) ==
    BulkCommitted(
        UpdateEach(Instantiated(w, Listed(w.store, PathOf("User"), MaxResults)),
                   Listed(w.store, PathOf("User"), MaxResults), 1, data,
                   RecParams(params), NoThrow),
        SessionOf(params))

RECURSIVE DeleteEach(_, _, _, _)

\* Query.delete without models: session.delete of each document read.
DeleteEach(w, paths, k, sid) ==
    IF k > Len(paths) THEN [w |-> w, thrown |-> NoThrow]
    ELSE DeleteEach(AddOp(w, sid, "delete", paths[k], EmptyMap), paths, k + 1, sid)

\* Query.delete on User.find().limit(MaxResults): User overrides no hook and
\* has no Collection field, so the documents are deleted without models.
queryDelete(w, params) ==
    BulkCommitted(
        DeleteEach(w, Listed(w.store, PathOf("User"), MaxResults), 1, SessionOf(params)),
        SessionOf(params))

-----------------------------------------------------------------------------
(* SpecValidator: Validator.check on bounded inputs *)

Absent == [t |-> "Absent"]

\* The persistence engine is idle while the validator runs.
IdlePersistence ==
    /\ fireRef = EmptyMap
    /\ props = EmptyMap
    /\ changes = EmptyMap
    /\ items = EmptyMap
    /\ deleted = EmptyMap
    /\ store = EmptyMap
    /\ nextId = 1
    /\ docId = EmptyMap
    /\ batch = EmptyMap
    /\ last = EmptyMap
    /\ steps = 0

ValidResult == [valid |-> TRUE, errors |-> {}]
TakenResult == [valid |-> FALSE, errors |-> {<<(<<"username">>), "This username is already taken">>}]

\* test/fixtures/models/User.ts: class Address
AddressSchema ==
    [country |-> Rule("String"),
     zipcode |-> [Rule("String") EXCEPT !.minlength = Bare(MinTitleLength)]]

\* The Post fixture's title, user and approved fields, and the User fixture's
\* address; the forms of required and minlength vary with the input.
ValidatorSchema(required, minlength) ==
    [title |-> [Rule("String") EXCEPT !.required = required, !.minlength = minlength],
     address |-> [Rule("SubModel") EXCEPT !.model = "Address", !.sub = AddressSchema],
     user |-> [Rule("Reference") EXCEPT !.model = "User"],
     approved |-> [Rule("Boolean") EXCEPT !.write = "admin"]]

RequiredForms == {NoCst, Bare(TRUE), WithMsg(TRUE, "Please enter a title"), WithMsg(FALSE, "off")}
MinlengthForms == {NoCst, Bare(MinTitleLength), WithMsg(MinTitleLength, "Enter at least 5 characters")}

TitleInputs == {Absent, Undefined, Null, Str(""), Str("hi"), Str("hello"), Num(5)}
AddressInputs ==
    {Absent,
     Obj("Object", [zipcode |-> Str("12345")]),
     Obj("Object", [zipcode |-> Str("12345"), planet |-> Str("earth")]),
     Obj("Object", [zipcode |-> Num(7)])}
UserInputs == {Absent, Inst("User", ValidResult), Inst("User", TakenResult), Inst("Topic", ValidResult)}
ApprovedInputs == {Absent, Bool(TRUE)}
OtherInputs == {Absent, Num(123)}
AuthValues == {"undefined", "null", "true", "false", "uid"}

\* The data map holding the inputs that are present.
DataOf(all) == [f \in { g \in DOMAIN all : all[g] # Absent } |-> all[f]]

InitValidator ==
    /\ \E required \in RequiredForms, minlength \in MinlengthForms :
           vSchema = ValidatorSchema(required, minlength)
    /\ \E title \in TitleInputs, address \in AddressInputs, user \in UserInputs,
          approved \in ApprovedInputs, other \in OtherInputs :
           vData = DataOf([title |-> title, address |-> address, user |-> user,
                           approved |-> approved, other |-> other])
    /\ \E newDocument \in BOOLEAN, authValue \in AuthValues :
           vOptions = [newDocument |-> newDocument, authValue |-> authValue]
    /\ vResult = NotRun
    /\ IdlePersistence
    /\ query = EmptyMap
    /\ registry = NoRegistry

Check ==
    /\ ~vResult.ran
    /\ vResult' = check(vSchema, vData, vOptions)
    /\ UNCHANGED <<vSchema, vData, vOptions>>
    /\ UNCHANGED <<persistenceVars, query, registry>>

NextValidator == Check

SpecValidator == InitValidator /\ [][NextValidator]_vars

-----------------------------------------------------------------------------
(* Claims on Validator.check *)

\* An error was recorded on the field itself or on a nested path under it.
HasErrorUnder(field) == \E e \in vResult.errors : e[1][1] = field

ValidatedFields == { f \in DOMAIN vData : f \in DOMAIN vSchema /\ ~HasErrorUnder(f) }

RequiredSet(field) ==
    vSchema[field].required \in {Bare(TRUE), WithMsg(TRUE, "Please enter a title")}

\* C8: required is enforced only in new-document mode (an absent required
\* field is an error there and no error elsewhere), and a present value is
\* checked against minlength in both modes.
C8_RequiredOnlyForNewDocuments ==
    vResult.ran =>
        LET absent == "title" \notin DOMAIN vData
            minlength == vSchema["title"].minlength
        IN /\ (vOptions.newDocument /\ RequiredSet("title") /\ absent)
                => (<<"title">> \in ErrorKeys(vResult.errors) /\ ~vResult.valid)
           /\ (~vOptions.newDocument /\ absent) => ~HasErrorUnder("title")
           /\ (~absent /\ vData["title"].t = "String" /\ vData["title"].v # "")
                => (HasErrorUnder("title")
                      <=> (minlength # NoCst /\ Len(vData["title"].v) < minlength.c))

\* C8 witness: a new document whose required title is absent is rejected.
C8_Witness ==
    /\ vResult.ran
    /\ vOptions.newDocument
    /\ RequiredSet("title")
    /\ "title" \notin DOMAIN vData
    /\ <<"title">> \in ErrorKeys(vResult.errors)
    /\ ~vResult.valid

-----------------------------------------------------------------------------
(* Spec: instances, containers, Model.save, batches and their callbacks *)

\* The number of operations of a run.
MaxSteps == 4

TitleValues == {Str("hi"), Str("hello")}
UsernameValues == {Str(""), Str("ann")}
ContentValues == {Str("ok"), Num(1)}

\* The scalar field of each model that a run assigns, and the values it takes.
ScalarField(e) ==
    CASE e \in Posts -> "title" [] e \in Users -> "username" [] e \in Comments -> "content"
ScalarValues(e) ==
    CASE e \in Posts -> TitleValues [] e \in Users -> UsernameValues [] e \in Comments -> ContentValues

NoCall == [op |-> "none"]
NoBatch == [kind |-> "none", state |-> "none", ops |-> <<>>, cbs |-> <<>>, timer |-> FALSE,
            queued |-> <<>>, ran |-> <<>>, attempts |-> 0]

\* The documents a loaded run starts from: a post, its author, two comments.
PostRef == DocPath(NoRef, "test_posts", 1)
UserRef == DocPath(NoRef, "test_users", 2)
CommentRef(c) == DocPath(PostRef, "comments", IF c = "c1" THEN 3 ELSE 4)
\* A like of the first comment, in the sub-collection of the comment.
LikeRef == DocPath(CommentRef("c1"), "likes", 5)

IdleValidator ==
    /\ vSchema = EmptyMap
    /\ vData = EmptyMap
    /\ vOptions = EmptyMap
    /\ vResult = NotRun

\* Every instance is new and the store is empty.
InitFresh ==
    /\ fireRef = [e \in Entities |-> NoRef]
    /\ props = [e \in Entities |-> EmptyMap]
    /\ changes = [e \in Entities |-> EmptyMap]
    /\ items = [e \in Posts |-> <<>>]
    /\ deleted = [e \in Posts |-> <<>>]
    /\ store = EmptyMap
    /\ nextId = 1
    /\ docId = [e \in Entities |-> Undefined]

\* Post.doc(id).populate('comments').get(): the post, its two comments and,
\* when the document holds one, its author as an unpopulated reference.
InitLoaded(withUser) ==
    /\ fireRef = [e \in Entities |->
                    CASE e \in Posts -> PostRef
                      [] e \in Comments -> CommentRef(e)
                      [] e = "u1" /\ withUser -> UserRef
                      [] OTHER -> NoRef]
    /\ props = [e \in Entities |->
                    CASE e \in Posts ->
                            IF withUser
                            THEN [id |-> DocId(1), title |-> Str("hello"),
                                  user |-> Ptr("u1"), comments |-> Coll(e)]
                            ELSE [id |-> DocId(1), title |-> Str("hello"),
                                  comments |-> Coll(e)]
                      [] e \in Comments ->
                            [id |-> DocId(CommentRef(e)[4]), content |-> Str("ok")]
                      [] e = "u1" /\ withUser -> [id |-> DocId(2)]
                      [] OTHER -> EmptyMap]
    /\ changes = [e \in Entities |-> EmptyMap]
    /\ items = [e \in Posts |-> <<"c1", "c2">>]
    /\ deleted = [e \in Posts |-> <<>>]
    /\ store = (PostRef :> (IF withUser
                            THEN [title |-> Str("hello"), user |-> DocumentReference(UserRef)]
                            ELSE [title |-> Str("hello")]))
               @@ (UserRef :> [username |-> Str("ann")])
               @@ (CommentRef("c1") :> [content |-> Str("ok")])
               @@ (CommentRef("c2") :> [content |-> Str("ok")])
               @@ (LikeRef :> [value |-> Num(1)])
    /\ nextId = 6
    /\ docId = [e \in Entities |-> Undefined]

Init ==
    /\ IdleValidator
    /\ InitFresh \/ InitLoaded(TRUE) \/ InitLoaded(FALSE)
    /\ batch = NoBatch
    /\ last = NoCall
    /\ steps = 0
    /\ query = EmptyMap
    /\ registry = NoRegistry

\* The session of the caller: Firesnap.batch() or the transaction handed to
\* the executor of Firesnap.transaction.
Caller == IF batch.kind = "transaction" THEN Txn1 ELSE Batch1

\* The instances, the store and the sessions as one value.
World ==
    [[fireRef |-> fireRef, props |-> props, changes |-> changes, items |-> items,
     deleted |-> deleted, store |-> store, nextId |-> nextId, docId |-> docId,
     ops |-> (Internal :> <<>>) @@ (Batch1 :> <<>>) @@ (Txn1 :> <<>>),
     cbs |-> (Internal :> <<>>) @@ (Batch1 :> <<>>) @@ (Txn1 :> <<>>),
     ran |-> <<>>, commits |-> <<>>]
        EXCEPT !.ops[Caller] = batch.ops, !.cbs[Caller] = batch.cbs]

\* The instances and the store take the values of w.
Becomes(w) ==
    /\ fireRef' = w.fireRef
    /\ props' = w.props
    /\ changes' = w.changes
    /\ items' = w.items
    /\ deleted' = w.deleted
    /\ store' = w.store
    /\ nextId' = w.nextId
    /\ docId' = w.docId

Step ==
    /\ steps < MaxSteps
    /\ steps' = steps + 1
    /\ UNCHANGED <<validatorVars, query, registry>>

\* ModelHandler.set on a scalar field.
Assign(e, value) ==
    /\ Step
    /\ props' = [props EXCEPT ![e] = (ScalarField(e) :> value) @@ @]
    /\ changes' = [changes EXCEPT ![e] = (ScalarField(e) :> value) @@ @]
    /\ last' = NoCall
    /\ UNCHANGED <<fireRef, items, deleted, store, nextId, docId, batch>>

\* ModelHandler.set on the Reference field: post.user = user.
AssignReference(e, user) ==
    /\ Step
    /\ props' = [props EXCEPT ![e] = ("user" :> Ptr(user)) @@ @]
    /\ changes' = [changes EXCEPT ![e] = ("user" :> Ptr(user)) @@ @]
    /\ last' = NoCall
    /\ UNCHANGED <<fireRef, items, deleted, store, nextId, docId, batch>>

\* post.comments.pop(): the deleteProperty trap of Collection.
Pop(e) ==
    /\ Step
    /\ "comments" \in DOMAIN props[e]
    /\ items[e] # <<>>
    /\ LET member == items[e][Len(items[e])]
       IN /\ deleted' = [deleted EXCEPT ![e] =
                            IF fireRef[member] # NoRef THEN Append(@, member) ELSE @]
          /\ items' = [items EXCEPT ![e] = SubSeq(@, 1, Len(@) - 1)]
    /\ last' = NoCall
    /\ UNCHANGED <<fireRef, props, changes, store, nextId, docId, batch>>

\* post.comments.push(comment): the defineProperty trap of Collection.
Push(e, member) ==
    /\ Step
    /\ "comments" \in DOMAIN props[e]
    /\ member \notin Range(items[e])
    /\ items' = [items EXCEPT ![e] = Append(@, member)]
    /\ last' = NoCall
    /\ UNCHANGED <<fireRef, props, changes, deleted, store, nextId, docId, batch>>

\* The writes a call appended, to its own session and to the caller's batch.
Appended(w) ==
    w.ops[Internal] \o SubSeq(w.ops[Caller], Len(batch.ops) + 1, Len(w.ops[Caller]))

\* The kind and the path of each write.
Kinds(ops) == [i \in 1..Len(ops) |-> [kind |-> ops[i].kind, path |-> ops[i].path]]

\* The callbacks a call queued in the caller's session, and the hooks among
\* them.
Queued(w) == SubSeq(w.cbs[Caller], Len(batch.cbs) + 1, Len(w.cbs[Caller]))
QueuedHooksOf(cbs) == SelectSeq(cbs, LAMBDA cb : cb.method \in {"afterSave", "afterDelete"})
QueuedHooks(w) == QueuedHooksOf(Queued(w))

\* What a save call found: the reference and the change-set of the instance,
\* its pending deletions, its members, and whether a committed document of
\* its collection holds the value of its scalar field.
Found(e) ==
    [exists |-> fireRef[e] # NoRef,
     ref |-> fireRef[e],
     docId |-> docId[e],
     stored |-> fireRef[e] \in DOMAIN store,
     changes |-> changes[e],
     pending |-> IF e \in Posts THEN [i \in 1..Len(deleted[e]) |-> fireRef[deleted[e][i]]]
                 ELSE <<>>,
     members |-> IF e \in Posts THEN [i \in 1..Len(items[e]) |-> fireRef[items[e][i]]]
                 ELSE <<>>,
     clean |-> \A m \in Comments : changes[m] = EmptyMap,
     taken |-> /\ ScalarField(e) \in DOMAIN changes[e]
               /\ \E path \in DOMAIN store :
                     /\ Len(path) = 2 /\ path[1] = PathOf(TypeOf(e))
                     /\ ScalarField(e) \in DOMAIN store[path]
                     /\ store[path][ScalarField(e)] = changes[e][ScalarField(e)]]

\* The call has returned r: the instances, the store and the batch move on.
Saved(e, callbacks, doValidate, overwrite, session, before, r, found) ==
    /\ Becomes(r.w)
    /\ batch' = [batch EXCEPT !.ops = r.w.ops[Caller],
                              !.cbs = r.w.cbs[Caller],
                              !.queued = @ \o QueuedHooks(r.w)]
    /\ last' = [op |-> "save", e |-> e, session |-> session, ret |-> r.ret,
                hooks |-> callbacks = "true", validate |-> doValidate, before |-> before,
                callbacks |-> callbacks, overwrite |-> overwrite,
                queued |-> QueuedHooks(r.w), cbs |-> Queued(r.w),
                own |-> Len(r.w.ops[Internal]), commits |-> r.w.commits,
                writes |-> Kinds(Appended(r.w)),
                errors |-> r.errors,
                ran |-> r.w.ran,
                found |-> found,
                holds |-> IF e \in Posts THEN Len(r.w.items[e]) ELSE 0]

\* await model.save(options)
Save(e, callbacks, doValidate, overwrite, session, before) ==
    /\ Step
    /\ session # NoSession => (session = Caller /\ batch.state = "open")
    /\ Saved(e, callbacks, doValidate, overwrite, session, before,
             save(World, e, [SaveParams(callbacks, doValidate, session, before)
                                EXCEPT !.overwrite = overwrite]),
             Found(e))

\* What a delete call found: the reference, the fields and the change-set of
\* the instance, and the committed documents below its document.
FoundByDelete(e) ==
    [exists |-> fireRef[e] # NoRef,
     ref |-> fireRef[e],
     props |-> props[e],
     changes |-> changes[e],
     below |-> { path \in DOMAIN store :
                    /\ fireRef[e] # NoRef
                    /\ Len(path) > Len(fireRef[e])
                    /\ SubSeq(path, 1, Len(fireRef[e])) = fireRef[e] }]

\* The call has returned r.
Deleted(e, callbacks, session, before, r, found) ==
    /\ Becomes(r.w)
    /\ batch' = [batch EXCEPT !.ops = r.w.ops[Caller],
                              !.cbs = r.w.cbs[Caller],
                              !.queued = @ \o QueuedHooks(r.w)]
    /\ last' = [op |-> "delete", e |-> e, session |-> session, ret |-> r.ret,
                callbacks |-> callbacks, before |-> before,
                writes |-> Kinds(Appended(r.w)),
                queued |-> QueuedHooks(r.w), cbs |-> Queued(r.w),
                own |-> Len(r.w.ops[Internal]), commits |-> r.w.commits,
                ran |-> r.w.ran,
                found |-> found]

\* await model.delete(options)
Delete(e, callbacks, session, before) ==
    /\ Step
    /\ session # NoSession => (session = Caller /\ batch.state = "open")
    /\ Deleted(e, callbacks, session, before,
               delete(World, e, DeleteParams(callbacks, session, before)),
               FoundByDelete(e))

\* A bulk call has returned r.
Bulk(op, session, r) ==
    /\ Step
    /\ session # NoSession => (session = Caller /\ batch.state = "open")
    /\ Becomes(r.w)
    /\ batch' = [batch EXCEPT !.ops = r.w.ops[Caller],
                              !.cbs = r.w.cbs[Caller],
                              !.queued = @ \o QueuedHooks(r.w)]
    /\ last' = [op |-> op, session |-> session, ret |-> r.ret,
                writes |-> Kinds(Appended(r.w)),
                queued |-> QueuedHooks(r.w), cbs |-> Queued(r.w),
                own |-> Len(r.w.ops[Internal]), commits |-> r.w.commits,
                ran |-> r.w.ran]

\* await User.find().limit(MaxResults).update({ username: value }, options)
Update(value, callbacks, session) ==
    Bulk("update", session,
         update(World, [username |-> value], SaveParams(callbacks, TRUE, session, TRUE)))

\* await User.find().limit(MaxResults).delete(options)
QueryDelete(callbacks, session) ==
    Bulk("delete all", session, queryDelete(World, DeleteParams(callbacks, session, TRUE)))

\* Firesnap.batch()
NewBatch ==
    /\ Step
    /\ batch.state = "none"
    /\ batch' = [NoBatch EXCEPT !.kind = "batch", !.state = "open", !.timer = TRUE]
    /\ last' = NoCall
    /\ UNCHANGED <<fireRef, props, changes, items, deleted, store, nextId, docId>>

\* The commit has returned c.
BatchCommitted(c) ==
    /\ Becomes(c.w)
    /\ batch' = [batch EXCEPT !.state = IF c.ok THEN "committed" ELSE "failed",
                              !.ops = <<>>,
                              !.cbs = <<>>,
                              !.timer = FALSE,
                              !.ran = c.w.ran]
    /\ last' = [op |-> "commit", ret |-> IF c.ok THEN "true" ELSE "CommitError",
                cbs |-> batch.cbs, ran |-> c.w.ran, changes |-> changes,
                fireRef |-> fireRef, store |-> store]

\* await batch.commit()
Commit ==
    /\ Step
    /\ batch.kind = "batch"
    /\ batch.state = "open"
    /\ BatchCommitted(commit(World, Batch1))

\* setTimeout(() => Storage.clearCallbacks(sessId), callbackTimeout): the
\* timer is armed when the batch is made, disarmed when commit is read, and
\* fires once.
TimerFires ==
    /\ batch.timer
    /\ batch' = [batch EXCEPT !.cbs = <<>>, !.timer = FALSE]
    /\ last' = NoCall
    /\ UNCHANGED <<fireRef, props, changes, items, deleted, store, nextId, docId>>

\* The timer fires between two calls of a run.
Timeout == Step /\ TimerFires

Next ==
    \/ \E e \in Entities, value \in UNION {TitleValues, UsernameValues, ContentValues} :
          value \in ScalarValues(e) /\ Assign(e, value)
    \/ \E e \in Posts, user \in Users : AssignReference(e, user)
    \/ \E e \in Posts : Pop(e)
    \/ \E e \in Posts, member \in Comments : Push(e, member)
    \/ \E e \in Posts \cup Users, callbacks \in {"true", "false"}, doValidate \in BOOLEAN,
          session \in {NoSession, Batch1}, before \in BOOLEAN :
          /\ (e \notin Posts \/ callbacks = "false") => before
          /\ Save(e, callbacks, doValidate, FALSE, session, before)
    \/ NewBatch
    \/ Commit
    \/ Timeout

Spec == Init /\ [][Next]_vars

-----------------------------------------------------------------------------
(* SpecSession: saves and deletes in their own session, in a batch, in a
   transaction *)

\* The attempts runTransaction makes before it gives up.
MaxAttempts == 2

\* The id of the test 'should set a custom id': a number stands for the string.
CustomDocId == 100

\* A user that was fetched and whose document another client has deleted since.
StaleRef == DocPath(NoRef, "test_users", 0)

InitStale ==
    /\ fireRef = [e \in Entities |->
                    CASE e \in Posts -> PostRef
                      [] e \in Comments -> CommentRef(e)
                      [] e = "u2" -> StaleRef
                      [] OTHER -> NoRef]
    /\ props = [e \in Entities |->
                    CASE e \in Posts ->
                            [id |-> DocId(1), title |-> Str("hello"), comments |-> Coll(e)]
                      [] e \in Comments ->
                            [id |-> DocId(CommentRef(e)[4]), content |-> Str("ok")]
                      [] e = "u2" -> [id |-> DocId(0), username |-> Str("bob")]
                      [] OTHER -> EmptyMap]
    /\ changes = [e \in Entities |-> EmptyMap]
    /\ items = [e \in Posts |-> <<"c1", "c2">>]
    /\ deleted = [e \in Posts |-> <<>>]
    /\ store = (PostRef :> [title |-> Str("hello")])
               @@ (UserRef :> [username |-> Str("ann")])
               @@ (CommentRef("c1") :> [content |-> Str("ok")])
               @@ (CommentRef("c2") :> [content |-> Str("ok")])
               @@ (LikeRef :> [value |-> Num(1)])
    /\ nextId = 6
    /\ docId = [e \in Entities |-> Undefined]

\* The value a run of the sessions assigns to the scalar field of an instance.
SessionValue(e) ==
    CASE e \in Posts -> Str("hello") [] e = "u1" -> Str("ann") [] OTHER -> Str("bob")

InitSession ==
    /\ IdleValidator
    /\ InitFresh \/ InitLoaded(TRUE) \/ InitStale
    /\ batch = NoBatch
    /\ last = NoCall
    /\ steps = 0
    /\ query = EmptyMap
    /\ registry = NoRegistry

\* model.setId(id)
SetId(e) ==
    /\ Step
    /\ docId' = [docId EXCEPT ![e] = DocId(CustomDocId)]
    /\ last' = NoCall
    /\ UNCHANGED <<fireRef, props, changes, items, deleted, store, nextId, batch>>

\* Firesnap.transaction(executor): runTransaction calls the update function,
\* which registers a session id and hands the transaction to the executor.
Transaction ==
    /\ Step
    /\ batch.state = "none"
    /\ batch' = [NoBatch EXCEPT !.kind = "transaction", !.state = "open", !.attempts = 1]
    /\ last' = NoCall
    /\ UNCHANGED <<fireRef, props, changes, items, deleted, store, nextId, docId>>

\* The executor has returned: the update function calls every callback queued
\* under the session id, clears them and returns; the writes of the
\* transaction are not committed yet.
TransactionExecuted(w) ==
    /\ Becomes(w)
    /\ batch' = [batch EXCEPT !.state = "executed", !.cbs = <<>>, !.ran = @ \o w.ran]
    /\ last' = [op |-> "executor", cbs |-> batch.cbs, ran |-> w.ran, changes |-> changes]
    /\ UNCHANGED <<validatorVars, query, registry, steps>>

Executed ==
    /\ batch.kind = "transaction"
    /\ batch.state = "open"
    /\ TransactionExecuted(RunCallbacks(World, batch.cbs, 1))

\* runTransaction once the update function has returned: the writes are
\* committed, or the commit fails and the update function is called again, or
\* the commit fails for good and Firesnap.transaction rejects.
TransactionCommitted(outcome, r) ==
    /\ batch.kind = "transaction"
    /\ batch.state = "executed"
    /\ outcome = "committed" => r.ok
    /\ outcome = "open" => batch.attempts < MaxAttempts
    /\ store' = (IF outcome = "committed" THEN r.store ELSE store)
    /\ batch' = [batch EXCEPT !.state = outcome,
                              !.ops = <<>>,
                              !.attempts = IF outcome = "open" THEN @ + 1 ELSE @]
    /\ last' = [op |-> "transaction", ret |-> outcome]
    /\ UNCHANGED <<validatorVars, query, registry, steps, fireRef, props, changes, items, deleted,
                   nextId, docId>>

NextSession ==
    \/ \E e \in Posts \cup Users : Assign(e, SessionValue(e))
    \/ \E e \in Posts \cup Users, callbacks \in {"true", "false"},
          session \in {NoSession, Caller} :
          Save(e, callbacks, TRUE, FALSE, session, TRUE)
    \/ \E e \in Posts \cup Users, callbacks \in {"true", "false"},
          session \in {NoSession, Caller} :
          Delete(e, callbacks, session, TRUE)
    \/ \E callbacks \in {"true", "false"}, session \in {NoSession, Caller} :
          Update(Str("zed"), callbacks, session)
    \/ \E callbacks \in {"true", "false"}, session \in {NoSession, Caller} :
          QueryDelete(callbacks, session)
    \/ NewBatch
    \/ Commit
    \/ Timeout
    \/ Transaction
    \/ Executed
    \/ \E outcome \in {"committed", "open", "failed"} :
          TransactionCommitted(outcome, ApplyOps(store, batch.ops, 1))

SpecSession == InitSession /\ [][NextSession]_vars

\* SpecEntity: the options of save and delete on one instance at a time.
NextEntity ==
    \/ \E e \in Posts \cup Users : Assign(e, SessionValue(e))
    \/ \E e \in Posts : AssignReference(e, "u1")
    \/ \E e \in Posts \cup Users : SetId(e)
    \/ \E e \in Posts \cup Users, callbacks \in {"true", "false", "beforeSave", "afterSave"},
          overwrite \in BOOLEAN, session \in {NoSession, Caller}, before \in BOOLEAN :
          /\ (e \notin Posts \/ callbacks = "false") => before
          /\ overwrite => fireRef[e] # NoRef
          /\ Save(e, callbacks, TRUE, overwrite, session, before)
    \/ \E e \in Entities, callbacks \in {"true", "false", "beforeDelete", "afterDelete"},
          session \in {NoSession, Caller}, before \in BOOLEAN :
          /\ (e \notin Posts \/ callbacks = "false") => before
          /\ Delete(e, callbacks, session, before)
    \/ NewBatch
    \/ Commit

SpecEntity == InitSession /\ [][NextEntity]_vars


-----------------------------------------------------------------------------
(* Claims on Model.save and the batch *)

\* The writes of the last call that are of a kind, and those on one path.
WritesOf(kind) == SelectSeq(last.writes, LAMBDA op : op.kind = kind)
DeletesOn(path) == SelectSeq(last.writes, LAMBDA op : op.kind = "delete" /\ op.path = path)
PendingOn(path) == SelectSeq(last.found.pending, LAMBDA ref : ref = path)

\* The afterSave hooks of an instance in a list of callbacks.
AfterSaves(cbs, e) == SelectSeq(cbs, LAMBDA cb : cb.model = e /\ cb.method = "afterSave")

\* C1: a save that finds the change-set of the instance empty appends no
\* write to the session and returns false, whether the instance is new or
\* persisted and whether or not it holds references or containers.
C1_EmptyChangeSetWritesNothing ==
    (last.op = "save" /\ last.found.changes = EmptyMap)
        => (last.ret = "false" /\ last.writes = <<>>)

\* C2: with a caller's batch the afterSave hook is not run by save, has not
\* run while the batch is not committed, and has run exactly once per save
\* when the batch has been committed successfully.
C2_HookRunsOnceOnCommit ==
    /\ (last.op = "save" /\ last.session = Batch1) => last.ran = <<>>
    /\ batch.state # "committed" => batch.ran = <<>>
    /\ batch.state = "committed" =>
          \A e \in Entities :
              Len(AfterSaves(batch.ran, e)) = Len(AfterSaves(batch.queued, e))

\* C3: a successful save emits exactly one delete write for each pending
\* removal that was persisted and none for the others, whatever the order
\* of the pending-deletion list.
C3_OneDeletePerPersistedRemoval ==
    (last.op = "save" /\ last.ret = "true") =>
        /\ \A i \in 1..Len(last.found.pending) :
              last.found.pending[i] # NoRef =>
                  Len(DeletesOn(last.found.pending[i])) = Len(PendingOn(last.found.pending[i]))
        /\ \A i \in 1..Len(last.writes) :
              last.writes[i].kind = "delete" => PendingOn(last.writes[i].path) # <<>>

\* C4: a persisted instance whose container held two persisted members, one
\* of which was popped, emits on save exactly one delete write and no create
\* write, and the container holds one member afterwards.
C4_PopThenSaveDeletesOne ==
    ( /\ last.op = "save"
      /\ last.e \in Posts
      /\ last.hooks => last.before
      /\ last.found.exists
      /\ last.found.changes = EmptyMap
      /\ last.found.clean
      /\ Len(last.found.members) = 1 /\ last.found.members[1] # NoRef
      /\ Len(last.found.pending) = 1 /\ last.found.pending[1] # NoRef )
        => /\ Len(WritesOf("delete")) = 1
           /\ Len(WritesOf("set")) = 0
           /\ last.holds = 1

\* C5: when save raises a validation error, no write was appended to the
\* session: none for the instance, none from a cascaded reference save, a
\* member save or a pending deletion.
C5_ValidationErrorWritesNothing ==
    (last.op = "save" /\ last.ret = "ValidationError") => last.writes = <<>>

\* C6: of two new instances carrying the same value of a unique field and
\* saved one after the other, the first save succeeds and the second raises
\* a validation error naming that field only, and appends no write.
C6_SecondSameUniqueValueRejected ==
    ( /\ last.op = "save"
      /\ last.e \in Users
      /\ last.validate
      /\ ~last.found.exists
      /\ "username" \in DOMAIN last.found.changes )
        => IF last.found.taken
           THEN /\ last.ret = "ValidationError"
                /\ last.errors = {<<"username">>}
                /\ last.writes = <<>>
           ELSE last.ret = "true"

-----------------------------------------------------------------------------
(* SpecTimer: a batch and its timer. The calls of the run are bounded; the
   timer is not one of them, and the event loop runs it once it is due. *)

Expire == TimerFires /\ UNCHANGED <<validatorVars, query, registry, steps>>

NextTimer ==
    \/ \E e \in Posts \cup Users : Assign(e, SessionValue(e))
    \/ \E e \in Posts \cup Users, session \in {NoSession, Caller} :
          Save(e, "true", TRUE, FALSE, session, TRUE)
    \/ \E e \in Posts \cup Users, session \in {NoSession, Caller} :
          Delete(e, "true", session, TRUE)
    \/ NewBatch
    \/ Commit
    \/ Expire

SpecTimer == InitSession /\ [][NextTimer]_vars /\ WF_vars(Expire)

\* C16: for every batch that is made and never committed, the queue of
\* callbacks under its session id is eventually empty and stays empty,
\* whenever the saves and the deletes queue their callbacks, before the
\* timeout or after it.
C16_QueueOfOpenBatchDrains ==
    <>[](batch.state = "open" => batch.cbs = <<>>)

-----------------------------------------------------------------------------
(* Claims on the sessions *)

\* The hooks among callbacks, in their order, as ran records them.
HooksOf(cbs) ==
    [k \in 1..Len(QueuedHooksOf(cbs)) |->
        [model |-> QueuedHooksOf(cbs)[k].model, method |-> QueuedHooksOf(cbs)[k].method]]

\* C15: the commit of a batch first performs the underlying commit; when it
\* succeeds, every callback queued under the session id is called, in the
\* order it was queued; the queue is empty once the commit call has ended,
\* successful or not; when the underlying commit fails no callback is run
\* and the error is the one the caller gets.
C15_CommitRunsTheQueue ==
    last.op = "commit" =>
        /\ batch.cbs = <<>>
        /\ last.ret = "true" =>
              /\ batch.state = "committed"
              /\ last.ran = HooksOf(last.cbs)
              /\ \A k \in 1..Len(last.cbs) :
                    last.cbs[k].model \in Entities =>
                        /\ last.cbs[k].method = "resetChanges"
                              => changes[last.cbs[k].model] = EmptyMap
                        /\ last.cbs[k].method = "resetProperties"
                              => fireRef[last.cbs[k].model] = NoRef
        /\ last.ret # "true" =>
              /\ last.ret = "CommitError"
              /\ batch.state = "failed"
              /\ last.ran = <<>>
              /\ changes = last.changes
              /\ fireRef = last.fireRef
              /\ store = last.store

C15_Witness ==
    /\ last.op = "commit"
    /\ last.ret = "true"
    /\ Len(last.ran) = 2
    /\ last.ran[1].model # last.ran[2].model

\* C17: the afterSave and afterDelete hooks of a save or a delete made in a
\* transaction are not run while the body of the transaction executes; they
\* run only once the transaction has committed (never when it fails), once
\* for each operation that queued one.
C17_TransactionHooksAfterCommit ==
    batch.kind = "transaction" =>
        /\ (last.op \in {"save", "delete"} /\ last.session = Txn1) => last.ran = <<>>
        /\ batch.state # "committed" => batch.ran = <<>>
        /\ batch.state = "committed" => batch.ran = HooksOf(batch.queued)

\* C20: the writes of one top-level save, delete, bulk update or bulk delete
\* are all appended to one session; the call commits that session, once, when
\* it made it, and the library never commits a session the caller gave.
C20_OneSessionPerCall ==
    last.op \in {"save", "delete", "update", "delete all"} =>
        /\ last.own = (IF last.session = NoSession THEN Len(last.writes) ELSE 0)
        /\ last.session # NoSession => last.commits = <<>>
        /\ last.session = NoSession =>
              last.commits = (IF last.ret \in {"true", "CommitError"} THEN <<Internal>> ELSE <<>>)

C20_Witness ==
    /\ last.op = "update"
    /\ last.session = NoSession
    /\ last.ret = "true"
    /\ Len(last.writes) = 2
    /\ last.commits = <<Internal>>

\* A call that owns its session has returned true in this step.
OwnSessionReturned ==
    /\ last' # last
    /\ last'.op \in {"save", "delete"}
    /\ last'.session = NoSession
    /\ last'.ret = "true"

\* C18: a save that owns its session commits it, and the change-set of the
\* instance is empty once it has returned; a save into the caller's batch or
\* transaction leaves the change-set as it was, and a change-set is emptied
\* only when the commit of the session's owner succeeds: it is kept when the
\* commit fails or is never made.
C18_ChangeSetClearedOnCommit ==
    [][/\ (OwnSessionReturned /\ last'.op = "save") => changes'[last'.e] = EmptyMap
       /\ (last' # last /\ last'.op = "save" /\ last'.session # NoSession)
             => changes'[last'.e] = changes[last'.e]
       /\ \A e \in Entities :
             (changes[e] # EmptyMap /\ changes'[e] = EmptyMap)
                => (OwnSessionReturned \/ (batch.state = "open" /\ batch'.state = "committed"))
      ]_vars

-----------------------------------------------------------------------------
(* Claims on the options of save and delete *)

\* The last call was made with its before hook enabled and the hook returned
\* false.
HookRefused(op, name) ==
    /\ last.op = op
    /\ last.callbacks \in {"true", name}
    /\ ~last.before

\* The last call appended no write, queued no callback and ran none.
NothingDone ==
    /\ last.ret = "false"
    /\ last.writes = <<>>
    /\ last.cbs = <<>>
    /\ last.ran = <<>>

\* C12: when the beforeSave hook is enabled and returns false, save returns
\* false, appends no write and queues no callback; the same holds for delete
\* when the enabled beforeDelete hook returns false.
C12_RefusingHookAborts ==
    (HookRefused("save", "beforeSave") \/ HookRefused("delete", "beforeDelete"))
        => NothingDone

DeleteProceeded ==
    /\ last.op = "delete"
    /\ last.found.exists
    /\ ~HookRefused("delete", "beforeDelete")

\* C14: the delete of a persisted instance appends, to one session, exactly
\* one delete for its own document and exactly one for every document of
\* every sub-collection below it at any depth, and no other write; the delete
\* of its own document comes after all the others.
C14_DeleteIsRecursive ==
    DeleteProceeded =>
        /\ \A i \in 1..Len(last.writes) : last.writes[i].kind = "delete"
        /\ \A path \in last.found.below \cup {last.found.ref} : Len(DeletesOn(path)) = 1
        /\ Len(last.writes) = Cardinality(last.found.below) + 1
        /\ last.writes[Len(last.writes)].path = last.found.ref
        /\ last.own = (IF last.session = NoSession THEN Len(last.writes) ELSE 0)

C14_Witness ==
    /\ DeleteProceeded
    /\ \E path \in last.found.below : Len(path) = Len(last.found.ref) + 4

\* The writes of the last save on the document of its instance.
OwnWrites == SelectSeq(last.writes, LAMBDA op : op.path = fireRef[last.e])

\* C19: the write of a save on its own document is an update when the
\* instance has a reference and overwrite was not asked for, so that the save
\* of an instance whose document is missing never creates it, and a set when
\* the instance is new or overwrite was asked for; a new instance is written
\* under the id given with setId when there is one, under a generated id
\* otherwise; an instance with such an id and no reference is validated as a
\* new document.
C19_OwnDocumentWrite ==
    last.op = "save" =>
        /\ (last.found.exists /\ last.ret \in {"true", "CommitError"}) =>
              /\ Len(OwnWrites) = 1
              /\ OwnWrites[1].kind = (IF last.overwrite THEN "set" ELSE "update")
        /\ (last.found.exists /\ ~last.overwrite /\ ~last.found.stored) =>
              last.found.ref \notin DOMAIN store
        /\ (~last.found.exists /\ fireRef[last.e] # NoRef) =>
              /\ Len(OwnWrites) = 1
              /\ OwnWrites[1].kind = "set"
              /\ IF Truthy(last.found.docId)
                 THEN fireRef[last.e][2] = last.found.docId.id
                 ELSE fireRef[last.e][2] < nextId
        /\ (/\ ~last.found.exists
            /\ Truthy(last.found.docId)
            /\ last.e \in Posts
            /\ last.validate /\ last.before
            /\ "title" \notin DOMAIN last.found.changes) =>
              /\ last.ret = "ValidationError"
              /\ <<"title">> \in last.errors

C19_Witness ==
    /\ last.op = "save"
    /\ ~last.found.exists
    /\ Truthy(last.found.docId)
    /\ last.ret = "true"
    /\ fireRef[last.e] = DocPath(NoRef, PathOf(TypeOf(last.e)), CustomDocId)
    /\ fireRef[last.e] \in DOMAIN store

-----------------------------------------------------------------------------
(* The query resolver: Query and the Firestore collection it reads *)

\* The documents of test_posts in a query run, in document-name order.
QueryPosts == <<"p1", "p2", "p3", "p4", "p5">>

PostPath(id) == DocPath(NoRef, PathOf("Post"), id)

QueryDocumentSnapshot(path) == [t |-> "QueryDocumentSnapshot", path |-> path]

\* Converter.fromFirestore with returnAsJSON false: new model(formatted, doc),
\* an instance that carries the snapshot it was read from.
Fetched(id) == [t |-> "Post", e |-> id, docSnap |-> PostPath(id)]

\* query.after and query.before: [value, inclusive]; null is [set |-> FALSE].
Cursor(value, inclusive) == [set |-> TRUE, value |-> value, inclusive |-> inclusive]

\* Query constructor, for Post.find(): the descriptor and the cache.
NewQuery ==
    [sort |-> "none", after |-> [set |-> FALSE], before |-> [set |-> FALSE],
     populate |-> <<>>, cache |-> EmptyMap]

\* Query.checkCursorValue: TRUE when it does not throw.
checkCursorValue(value) ==
    \/ value.t \in {"Null", "Boolean", "Number", "String"}
    \/ /\ isModelInstance(value)
       /\ "docSnap" \in DOMAIN value
       /\ value.t = "Post"

\* Query.toFirestore(this.query): the Firestore query, the descriptor as the
\* call leaves it, and whether the call threw. On a cursor, typeof value ===
\* 'object' is true of null and reading value[Symbol.for('docSnap')] of null
\* throws a TypeError; an instance is replaced, in the descriptor, by the
\* snapshot it carries; the inclusive flag chooses the Firestore call.
toFirestore(q) ==
    LET Throws(c) == c.set /\ c.value.t = "Null"
        Unwrapped(c) ==
            IF c.set /\ "docSnap" \in DOMAIN c.value
            THEN [c EXCEPT !.value = QueryDocumentSnapshot(c.value.docSnap)]
            ELSE c
        Bound(c, inclusive, exclusive) ==
            IF c.set
            THEN [kind |-> IF c.inclusive THEN inclusive ELSE exclusive,
                  value |-> c.value]
            ELSE [kind |-> "none"]
    IN  [threw |-> Throws(q.after) \/ Throws(q.before),
         options |-> [q EXCEPT !.after = Unwrapped(@),
                               !.before = IF Throws(q.after) THEN @ ELSE Unwrapped(@)],
         orderBy |-> q.sort,
         start |-> Bound(Unwrapped(q.after), "startAt", "startAfter"),
         end |-> Bound(Unwrapped(q.before), "endAt", "endBefore")]

\* Firestore's order of field values: null sorts before every string.
TitleRank(value) ==
    CASE value.t = "Null" -> 0
      [] value.v = "a" -> 1
      [] value.v = "b" -> 2
      [] value.v = "c" -> 3
      [] value.v = "d" -> 4
      [] value.v = "e" -> 5

NameRank(id) == CHOOSE i \in 1..Len(QueryPosts) : QueryPosts[i] = id

\* The position of a document under orderBy(title, direction) followed by the
\* implicit order on the document name in the same direction; with no
\* orderBy the order is that of the document names.
SortKey(docs, orderBy, id) ==
    CASE orderBy = "none" -> NameRank(id)
      [] orderBy = "asc" ->
            TitleRank(docs[PostPath(id)].title) * (Len(QueryPosts) + 1) + NameRank(id)
      [] orderBy = "desc" ->
            0 - (TitleRank(docs[PostPath(id)].title) * (Len(QueryPosts) + 1) + NameRank(id))

\* The documents of the collection in the order of the query.
Ordered(docs, orderBy) ==
    LET ids == { id \in Range(QueryPosts) : PostPath(id) \in DOMAIN docs }
        Place(id) ==
            Cardinality({ o \in ids : SortKey(docs, orderBy, o) < SortKey(docs, orderBy, id) }) + 1
    IN  [i \in 1..Cardinality(ids) |-> CHOOSE id \in ids : Place(id) = i]

\* Whether a document is within a cursor bound: a snapshot cursor stands for
\* its title and its name, a field value for a title only.
Within(docs, orderBy, id, bound) ==
    LET FieldKey(value) ==
            IF orderBy = "desc" THEN 0 - TitleRank(value) ELSE TitleRank(value)
        distance ==
            IF bound.value.t = "QueryDocumentSnapshot"
            THEN SortKey(docs, orderBy, id) - SortKey(docs, orderBy, bound.value.path[2])
            ELSE FieldKey(docs[PostPath(id)].title) - FieldKey(bound.value)
    IN  CASE bound.kind = "none" -> TRUE
          [] bound.kind = "startAt" -> distance >= 0
          [] bound.kind = "startAfter" -> distance > 0
          [] bound.kind = "endAt" -> distance <= 0
          [] bound.kind = "endBefore" -> distance < 0

\* FirestoreQuery.get(): the names of the matching documents, in order. A
\* field value given as a cursor needs an orderBy to stand for.
QueryGet(docs, fq) ==
    LET Throws(bound) ==
            /\ bound.kind # "none"
            /\ bound.value.t # "QueryDocumentSnapshot"
            /\ fq.orderBy = "none"
        Keep(id) == Within(docs, fq.orderBy, id, fq.start)
                    /\ Within(docs, fq.orderBy, id, fq.end)
    IN  [threw |-> Throws(fq.start) \/ Throws(fq.end),
         ids |-> IF Throws(fq.start) \/ Throws(fq.end)
                 THEN <<>>
                 ELSE SelectSeq(Ordered(docs, fq.orderBy), Keep)]

\* Query.execPopulate, the requests of one field of one document: a single
\* reference asks for its target, an array of references for each element.
FieldRequests(data, field, index) ==
    IF field \notin DOMAIN data
    THEN <<>>
    ELSE IF data[field].t = "DocumentReference"
    THEN << [index |-> index, field |-> field, path |-> data[field].path] >>
    ELSE IF data[field].t = "Array"
    THEN [k \in 1..Len(data[field].items) |->
            [index |-> index, field |-> field, path |-> data[field].items[k].path]]
    ELSE <<>>

\* Query.execPopulate: for (field in queries) docs.forEach(...)
RECURSIVE Requests(_, _, _, _, _)
Requests(docs, fields, ids, f, i) ==
    IF f > Len(fields)
    THEN <<>>
    ELSE IF i > Len(ids)
    THEN Requests(docs, fields, ids, f + 1, 1)
    ELSE FieldRequests(docs[PostPath(ids[i])], fields[f], i)
         \o Requests(docs, fields, ids, f, i + 1)

\* Query.execPopulate: a path the cache knows, even as null, becomes an alias;
\* any other is fetched and enters the cache as null.
RECURSIVE Issue(_, _, _, _)
Issue(requests, k, cache, issued) ==
    IF k > Len(requests)
    THEN [cache |-> cache, requests |-> issued]
    ELSE IF requests[k].path \in DOMAIN cache
    THEN Issue(requests, k + 1, cache,
               Append(issued, [index |-> requests[k].index, field |-> requests[k].field,
                               path |-> requests[k].path, promise |-> "alias"]))
    ELSE Issue(requests, k + 1, (requests[k].path :> Null) @@ cache,
               Append(issued, [index |-> requests[k].index, field |-> requests[k].field,
                               path |-> requests[k].path, promise |-> "fetch"]))

\* Query.execPopulate after Promise.all, then Converter.fromFirestore. A
\* fetched QueryDocumentSnapshot enters the cache, a DocumentSnapshot of a
\* missing document does not; an alias of a path cached as null puts null
\* among the populated snapshots, and reading doc.id or doc.ref of null
\* throws a TypeError.
execPopulate(docs, q, ids, issued) ==
    LET Fetch(p) ==
            \E k \in 1..Len(issued.requests) :
                issued.requests[k].path = p /\ issued.requests[k].promise = "fetch"
        cache ==
            [p \in DOMAIN issued.cache |->
                IF p \in DOMAIN docs /\ Fetch(p)
                THEN QueryDocumentSnapshot(p)
                ELSE issued.cache[p]]
        nullAlias ==
            \E k \in 1..Len(issued.requests) :
                /\ issued.requests[k].promise = "alias"
                /\ cache[issued.requests[k].path] = Null
    IN  [query |-> [q EXCEPT !.cache = cache],
         ret |-> IF nullAlias THEN "TypeError" ELSE "ok",
         ids |-> IF nullAlias THEN <<>> ELSE ids,
         requests |-> issued.requests]

\* Query.get(), from the Firestore query on.
Queried(docs, fq, r) ==
    IF fq.threw
    THEN [query |-> fq.options, ret |-> "TypeError", ids |-> <<>>, requests |-> <<>>]
    ELSE IF r.threw
    THEN [query |-> fq.options, ret |-> "Error", ids |-> <<>>, requests |-> <<>>]
    ELSE IF fq.options.populate = <<>>
    THEN [query |-> fq.options, ret |-> "ok", ids |-> r.ids, requests |-> <<>>]
    ELSE execPopulate(docs, fq.options, r.ids,
                      Issue(Requests(docs, fq.options.populate, r.ids, 1, 1), 1,
                            fq.options.cache, <<>>))

\* Query.get()
get(docs, q) == Queried(docs, toFirestore(q), QueryGet(docs, toFirestore(q)))

-----------------------------------------------------------------------------
(* SpecQuery: one resolver, built and executed over a fixed collection *)

MaxRuns == 2

\* The collections a run may start from. Titles of p1..p5: distinct, with
\* repeats, with a null. Authors and topics of p1..p5: users u1, u2 and
\* topics t1, t2 exist; u3 and t3 were deleted and are dangling.
QueryConfigs ==
    [titles |-> { <<Str("a"), Str("b"), Str("c"), Str("d"), Str("e")>>,
                  <<Str("b"), Str("a"), Str("b"), Str("c"), Str("c")>>,
                  <<Str("b"), Null, Str("a"), Str("b"), Str("c")>> },
     users |-> { <<"u1", "u1", "u1", "u1", "u1">>,
                 <<"u1", "u2", "", "u2", "u1">>,
                 <<"u3", "u1", "u3", "u2", "">> },
     topics |-> { << <<"t1">>, <<"t1">>, <<"t1">>, <<"t1">>, <<"t1">> >>,
                  << <<"t1", "t2">>, <<>>, <<"t2", "t2">>, <<"t3">>, <<"t1", "t3">> >> }]

\* test/fixtures/models/Topic.ts: @Schema({path: 'test_topics'})
QueryStore(titles, users, topics) ==
    LET PostData(title, user, tags) ==
            [title |-> title,
             topics |-> Arr([k \in 1..Len(tags) |->
                              DocumentReference(DocPath(NoRef, "test_topics", tags[k]))])]
            @@ (IF user = ""
                THEN EmptyMap
                ELSE [user |-> DocumentReference(DocPath(NoRef, PathOf("User"), user))])
    IN  [path \in { PostPath(QueryPosts[i]) : i \in 1..Len(QueryPosts) } |->
            PostData(titles[NameRank(path[2])], users[NameRank(path[2])],
                     topics[NameRank(path[2])])]
        @@ [path \in { DocPath(NoRef, PathOf("User"), u) : u \in {"u1", "u2"} } |->
                [username |-> Str(path[2])]]
        @@ [path \in { DocPath(NoRef, "test_topics", t) : t \in {"t1", "t2"} } |->
                [name |-> Str(path[2])]]

\* Cursors: null, a title, two fetched posts, and a post made with new Post().
CursorValues == {Null, Str("b"), Fetched("p2"), Fetched("p4"), [t |-> "Post", e |-> "p1"]}
PopulateForms == { <<"user">>, <<"topics">>, <<"user", "topics">> }

InitQuery ==
    /\ IdleValidator
    /\ fireRef = EmptyMap
    /\ props = EmptyMap
    /\ changes = EmptyMap
    /\ items = EmptyMap
    /\ deleted = EmptyMap
    /\ \E titles \in QueryConfigs.titles, users \in QueryConfigs.users,
          topics \in QueryConfigs.topics :
           store = QueryStore(titles, users, topics)
    /\ nextId = 1
    /\ docId = EmptyMap
    /\ batch = NoBatch
    /\ last = NoCall
    /\ steps = 0
    /\ query = NewQuery
    /\ registry = NoRegistry

\* A builder call, made before the resolver is first executed: it returns the
\* resolver, or throws and leaves it as it was.
Built(op, q, threw) ==
    /\ steps = 0
    /\ query' = (IF threw THEN query ELSE q)
    /\ UNCHANGED registry
    /\ last' = (IF threw THEN [op |-> op, ret |-> "Error"] ELSE NoCall)
    /\ UNCHANGED <<validatorVars, fireRef, props, changes, items, deleted, store,
                   nextId, docId, batch, steps>>

\* Query.sort('title') and Query.sort({ title: 'desc' })
Sort(direction) == Built("sort", [query EXCEPT !.sort = direction], FALSE)

After(value) ==
    Built("after", [query EXCEPT !.after = Cursor(value, FALSE)], ~checkCursorValue(value))

StartAt(value) ==
    Built("startAt", [query EXCEPT !.after = Cursor(value, TRUE)], ~checkCursorValue(value))

EndAt(value) ==
    Built("endAt", [query EXCEPT !.before = Cursor(value, TRUE)], ~checkCursorValue(value))

EndBefore(value) ==
    Built("endBefore", [query EXCEPT !.before = Cursor(value, FALSE)], ~checkCursorValue(value))

\* Query.populate('user'), ('topics'), ('user,topics')
Populate(fields) == Built("populate", [query EXCEPT !.populate = fields], FALSE)

\* await query.get(): r is what the call returns; the descriptor the call
\* was made with is kept beside it.
Got(r) ==
    /\ steps < MaxRuns
    /\ query' = r.query
    /\ UNCHANGED registry
    /\ last' = [op |-> "get", run |-> steps + 1, sort |-> query.sort,
                after |-> query.after, before |-> query.before,
                populate |-> query.populate, ret |-> r.ret, ids |-> r.ids,
                requests |-> r.requests]
    /\ steps' = steps + 1
    /\ UNCHANGED <<validatorVars, fireRef, props, changes, items, deleted, store,
                   nextId, docId, batch>>

Get == Got(get(store, query))

NextQuery ==
    \/ \E direction \in {"asc", "desc"} : Sort(direction)
    \/ \E value \in CursorValues : After(value)
    \/ \E value \in CursorValues : StartAt(value)
    \/ \E value \in CursorValues : EndAt(value)
    \/ \E value \in CursorValues : EndBefore(value)
    \/ \E fields \in PopulateForms : Populate(fields)
    \/ Get

SpecQuery == InitQuery /\ [][NextQuery]_vars

-----------------------------------------------------------------------------
(* Claims on the query resolver *)

\* The fetches the last execution issued for a target.
FetchesOf(path) ==
    SelectSeq(last.requests, LAMBDA req : req.path = path /\ req.promise = "fetch")

\* C9: in one execution of a query, every target path that populated
\* reference slots point to, be they single references or elements of
\* arrays of references, in one result document or in several, is fetched
\* from the store exactly once.
C9_OneFetchPerTarget ==
    last.op = "get" =>
        \A k \in 1..Len(last.requests) : Len(FetchesOf(last.requests[k].path)) = 1

\* The documents in the order of the sort, and where a cursor falls in it: a
\* fetched entity is one of the documents, a scalar stands for the documents
\* whose title it is.
Sorted == Ordered(store, last.sort)

IsDocument(c) == c.value.t \in {"Post", "QueryDocumentSnapshot"}
CursorDocument(c) == IF "e" \in DOMAIN c.value THEN c.value.e ELSE c.value.path[2]

AtCursor(i, c) ==
    IF IsDocument(c)
    THEN Sorted[i] = CursorDocument(c)
    ELSE store[PostPath(Sorted[i])].title = c.value

BeforeCursor(i, c) ==
    IF IsDocument(c)
    THEN \E j \in (i + 1)..Len(Sorted) : Sorted[j] = CursorDocument(c)
    ELSE /\ ~AtCursor(i, c)
         /\ \/ \E j \in (i + 1)..Len(Sorted) : AtCursor(j, c)
            \/ /\ \A j \in 1..Len(Sorted) : ~AtCursor(j, c)
               /\ (TitleRank(store[PostPath(Sorted[i])].title) < TitleRank(c.value))
                     = (last.sort = "asc")

\* after(c) and startAt(c) drop what precedes the cursor, after(c) the cursor
\* document too; endBefore(c) and endAt(c) keep what precedes the cursor,
\* endAt(c) the cursor document too.
Starts(i) ==
    last.after.set =>
        /\ ~BeforeCursor(i, last.after)
        /\ last.after.inclusive \/ ~AtCursor(i, last.after)

Ends(i) ==
    last.before.set =>
        \/ BeforeCursor(i, last.before)
        \/ last.before.inclusive /\ AtCursor(i, last.before)

\* C10: a query sorted by the title returns, in the order of the sort, the
\* documents from the one that follows the cursor of after(c), or from the
\* cursor document of startAt(c), up to the last one that precedes the cursor
\* of endBefore(c), or up to the cursor document of endAt(c), for a cursor
\* that is a value of the title and for one that is a fetched Post.
C10_CursorsBoundTheResults ==
    (last.op = "get" /\ last.sort # "none" /\ last.populate = <<>>) =>
        /\ last.ret = "ok"
        /\ LET kept == { i \in 1..Len(Sorted) : Starts(i) /\ Ends(i) }
           IN  /\ Len(last.ids) = Cardinality(kept)
               /\ \A i \in kept :
                     last.ids[Cardinality({ j \in kept : j <= i })] = Sorted[i]

-----------------------------------------------------------------------------
(* SpecRoundTrip: Post.create(data), then Post.doc(id).populate(...).get() *)

\* The entries of an array of references and the members of a sub-collection
\* of a run, at most; the documents one save creates, at most.
MaxItems == 2
MaxDocs == 5

\* A model instance held by value: its constructor, getRef(), its own fields
\* and the names of the fields of its change-set.
Instance(ctor, ref, fields, changed) ==
    [t |-> ctor, ref |-> ref, props |-> fields, changes |-> changed]

\* new model(data): every field given is assigned through the proxy, with
\* tracking on, and is recorded.
New(ctor, fields) == Instance(ctor, NoRef, fields, DOMAIN fields)

\* Model.ref(id), and new model({}, docRef) of Converter.fromFirestore: the
\* primary key is populated and nothing is recorded.
Ref(ctor, path) == Instance(ctor, path, [id |-> DocId(path[Len(path)])], {})

\* new Collection(model, path, docs)
Members(docs) == [t |-> "Collection", items |-> docs]

\* new Document(model, docRef.path): the id is split off the path.
Document(model, path) ==
    [t |-> "Document", model |-> model, path |-> SubSeq(path, 1, Len(path) - 1),
     id |-> path[Len(path)]]

\* The rules of the fixtures that Converter.fromFirestore reads.
RoundTripSchema(model) ==
    CASE model = "Post" ->
            [title |-> [type |-> "String"],
             user |-> [type |-> "Reference", model |-> "User"],
             topics |-> [type |-> "Array", of |-> "Reference", model |-> "Topic"],
             comments |-> [type |-> "Collection", model |-> "Comment"]]
      [] model = "User" -> [displayName |-> [type |-> "String"]]
      [] model = "Topic" -> [name |-> [type |-> "String"]]
      [] model = "Comment" ->
            [content |-> [type |-> "String"],
             user |-> [type |-> "Reference", model |-> "User"]]

\* Object.keys and for..in: the keys in the order they were created.
KeyOrder ==
    <<"id", "title", "meta", "a", "b", "user", "topics", "comments", "displayName",
      "name", "content">>

Index(i) == ToString(i - 1)
IsIndex(key) == \E i \in 1..MaxItems : key = Index(i)

KeysOf(value) ==
    IF value.t \in {"Array", "Collection"}
    THEN [i \in 1..Len(value.items) |-> Index(i)]
    ELSE SelectSeq(KeyOrder, LAMBDA key : key \in DOMAIN value.props)

Child(value, key) ==
    IF value.t \in {"Array", "Collection"}
    THEN value.items[CHOOSE i \in 1..Len(value.items) : Index(i) = key]
    ELSE value.props[key]

\* utils.flattenObject(src, false, sep): reading obj[prop].constructor of a
\* null or undefined value throws a TypeError.
RECURSIVE flattenThrows(_)
flattenThrows(src) ==
    \E i \in 1..Len(KeysOf(src)) :
        \/ Child(src, KeysOf(src)[i]).t \in {"Null", "Undefined"}
        \/ /\ Child(src, KeysOf(src)[i]).t \in {"Object", "Array"}
           /\ flattenThrows(Child(src, KeysOf(src)[i]))

\* utils.flattenObject(src, false, sep): plain objects and arrays are entered,
\* every other value is a leaf under the path that leads to it.
RECURSIVE flattenObject(_, _)
RECURSIVE FlattenKeys(_, _, _, _)
flattenObject(src, path) == FlattenKeys(src, KeysOf(src), 1, path)

FlattenKeys(src, keys, i, path) ==
    IF i > Len(keys) THEN <<>>
    ELSE (IF Child(src, keys[i]).t \in {"Object", "Array"}
          THEN flattenObject(Child(src, keys[i]), Append(path, keys[i]))
          ELSE << [path |-> Append(path, keys[i]), value |-> Child(src, keys[i])] >>)
         \o FlattenKeys(src, keys, i + 1, path)

\* utils.expandObject, one level: a path that goes on with a number makes an
\* array, whose other slots are holes, any other an object.
RECURSIVE Expanded(_)
Expanded(flat) ==
    LET heads == { flat[i].path[1] : i \in 1..Len(flat) }
        Under(key) ==
            LET below == SelectSeq(flat, LAMBDA entry : entry.path[1] = key)
            IN  [i \in 1..Len(below) |->
                    [path |-> Tail(below[i].path), value |-> below[i].value]]
        length == CHOOSE n \in 1..MaxItems :
                      /\ Index(n) \in heads
                      /\ \A m \in (n + 1)..MaxItems : Index(m) \notin heads
    IN  IF flat[1].path = <<>> THEN flat[1].value
        ELSE IF IsIndex(flat[1].path[1])
        THEN Arr([i \in 1..length |->
                    IF Index(i) \in heads THEN Expanded(Under(Index(i))) ELSE Undefined])
        ELSE Obj("Object", [key \in heads |-> Expanded(Under(key))])

\* utils.expandObject(flatData, sep)
expandObject(flat) == IF flat = <<>> THEN EmptyMap ELSE Expanded(flat).props

\* Converter.toFirestore: a Collection is left out, a Document becomes the
\* reference firestore.doc(path + '/' + id), arrays, plain objects and
\* sub-models are converted in turn, anything else is kept.
RECURSIVE ConverterToFirestore(_)
ConverterToFirestore(data) ==
    LET Formatted(value) ==
            CASE value.t = "Document" -> DocumentReference(Append(value.path, value.id))
              [] value.t \in {"Array", "Object"} -> ConverterToFirestore(value)
              [] OTHER -> value
    IN  IF data.t = "Array"
        THEN Arr([i \in 1..Len(data.items) |-> Formatted(data.items[i])])
        ELSE Obj("Object",
                 [f \in { g \in DOMAIN data.props : data.props[g].t # "Collection" } |->
                     Formatted(data.props[f])])

\* The value at a path replaced: the instances a save has gone through are
\* the very objects the fields of their owner hold.
RECURSIVE ReplaceAt(_, _, _)
ReplaceAt(value, path, new) ==
    IF path = <<>> THEN new
    ELSE IF value.t \in {"Array", "Collection"}
    THEN [value EXCEPT
              !.items[CHOOSE i \in 1..Len(value.items) : Index(i) = path[1]] =
                  ReplaceAt(@, Tail(path), new)]
    ELSE [value EXCEPT !.props[path[1]] = ReplaceAt(@, Tail(path), new)]

RECURSIVE ReplaceAll(_, _, _, _)
ReplaceAll(value, paths, values, i) ==
    IF i > Len(paths) THEN value
    ELSE ReplaceAll(ReplaceAt(value, paths[i], values[i]), paths, values, i + 1)

\* The session of one save and the ids firestore.collection(path).doc() is
\* going to generate, in the order of the calls.
Supplied(ids) == [ids |-> ids, ops |-> <<>>]

RootParams == [parentRef |-> NoRef, fieldName |-> ""]

RECURSIVE saveInstance(_, _, _)
RECURSIVE SaveRequests(_, _, _, _, _)
RECURSIVE SaveEachMember(_, _, _, _, _)

\* Model.save, "Save updated/created references": a persisted instance with
\* an empty change-set is left alone, any other is saved with recParams.
RequestSaved(r, requests, i, params, values) ==
    IF r.ret \notin {"true", "false"}
    THEN [values |-> values, st |-> r.st, ret |-> r.ret]
    ELSE SaveRequests(requests, i + 1, params, r.st, Append(values, r.inst))

SaveRequests(requests, i, params, st, values) ==
    IF i > Len(requests) THEN [values |-> values, st |-> st, ret |-> "true"]
    ELSE IF requests[i].value.ref # NoRef /\ requests[i].value.changes = {}
    THEN SaveRequests(requests, i + 1, params, st, Append(values, requests[i].value))
    ELSE RequestSaved(saveInstance(requests[i].value, params, st), requests, i, params,
                      values)

\* Model.save, "Save sub-collections": every member of every Collection among
\* the own fields whose change-set is not empty is saved under this document.
\* The paths of these members from the instance.
RECURSIVE MemberPathsFrom(_, _, _)
MemberPathsFrom(inst, fields, k) ==
    IF k > Len(fields) THEN <<>>
    ELSE [i \in 1..Len(inst.props[fields[k]].items) |-> <<fields[k], Index(i)>>]
         \o MemberPathsFrom(inst, fields, k + 1)

MemberPaths(inst) ==
    SelectSeq(MemberPathsFrom(inst,
                              SelectSeq(KeysOf(inst),
                                        LAMBDA f : inst.props[f].t = "Collection"),
                              1),
              LAMBDA path : Child(inst.props[path[1]], path[2]).changes # {})

MemberSavedByValue(r, inst, paths, i, st) ==
    IF r.ret \notin {"true", "false"}
    THEN [inst |-> inst, st |-> r.st, ret |-> r.ret]
    ELSE SaveEachMember(ReplaceAt(inst, paths[i], r.inst), paths, i + 1,
                        r.st, "true")

SaveEachMember(inst, paths, i, st, ret) ==
    IF i > Len(paths) THEN [inst |-> inst, st |-> st, ret |-> ret]
    ELSE MemberSavedByValue(
             saveInstance(Child(inst.props[paths[i][1]], paths[i][2]),
                          [parentRef |-> inst.ref, fieldName |-> paths[i][1]], st),
             inst, paths, i, st)

\* Model.save, "Auto set the id for reference".
WithId(inst) == [inst EXCEPT !.props = ("id" :> DocId(inst.ref[Len(inst.ref)])) @@ @]

\* Model.save, "Save the document": no write and false when fireData is
\* empty; an update of a persisted instance, a set at a new reference of any
\* other, under the parent when there is one.
DocumentSaved(inst, params, st, fireData) ==
    IF fireData = EmptyMap THEN [inst |-> inst, st |-> st, ret |-> "false"]
    ELSE IF inst.ref # NoRef
    THEN SaveEachMember(inst, MemberPaths(inst), 1,
                        [st EXCEPT !.ops = Append(@, [kind |-> "update", path |-> inst.ref,
                                                       data |-> fireData])],
                        "true")
    ELSE SaveEachMember(
             WithId([inst EXCEPT !.ref =
                        DocPath(params.parentRef,
                                IF params.parentRef # NoRef THEN params.fieldName
                                ELSE PathOf(inst.t),
                                Head(st.ids))]),
             MemberPaths(inst), 1,
             [ids |-> Tail(st.ids),
              ops |-> Append(st.ops,
                             [kind |-> "set",
                              path |-> DocPath(params.parentRef,
                                               IF params.parentRef # NoRef
                                               THEN params.fieldName ELSE PathOf(inst.t),
                                               Head(st.ids)),
                              data |-> fireData])],
             "true")

\* Model.save with validate: false, once the requests have settled: reading
\* docRef.path of an instance left without a reference throws a TypeError;
\* Object.assign(data, expandObject(flatData)) when there is a request.
ReferencesSaved(inst, params, requests, refs) ==
    IF refs.ret # "true"
    THEN [inst |-> inst, st |-> refs.st, ret |-> refs.ret]
    ELSE IF \E i \in 1..Len(requests) : refs.values[i].ref = NoRef
    THEN [inst |-> inst, st |-> refs.st, ret |-> "TypeError"]
    ELSE DocumentSaved(
             ReplaceAll(inst, [i \in 1..Len(requests) |-> requests[i].path],
                        refs.values, 1),
             params, refs.st,
             ConverterToFirestore(
                 Obj("Object",
                     (IF requests = <<>> THEN EmptyMap
                      ELSE expandObject([i \in 1..Len(requests) |->
                               [path |-> requests[i].path,
                                value |-> Document(refs.values[i].t, refs.values[i].ref)]]))
                     @@ [f \in inst.changes |-> inst.props[f]])).props)

\* Model.save with callbacks: false and validate: false, up to the commit:
\* inst as the call leaves it, the writes of the session, and what the call
\* returns or throws.
saveInstance(inst, params, st) ==
    IF flattenThrows(inst)
    THEN [inst |-> inst, st |-> st, ret |-> "TypeError"]
    ELSE ReferencesSaved(
             inst, params,
             SelectSeq(flattenObject(inst, <<>>), LAMBDA entry : isModelInstance(entry.value)),
             SaveRequests(SelectSeq(flattenObject(inst, <<>>),
                                    LAMBDA entry : isModelInstance(entry.value)),
                          1, params, st, <<>>))

\* The resetChanges callbacks of a commit: the change-set of every instance
\* the save has written is emptied.
RECURSIVE ResetByValue(_)
ResetByValue(value) ==
    CASE isModelInstance(value) ->
            [value EXCEPT !.changes = IF value.ref = NoRef THEN @ ELSE {},
                          !.props = [f \in DOMAIN value.props |->
                                        ResetByValue(value.props[f])]]
      [] value.t \in {"Array", "Collection"} ->
            [value EXCEPT !.items = [i \in 1..Len(value.items) |->
                                        ResetByValue(value.items[i])]]
      [] value.t = "Object" ->
            [value EXCEPT !.props = [f \in DOMAIN value.props |->
                                        ResetByValue(value.props[f])]]
      [] OTHER -> value

\* ModelHandler.set, as new model(formatted, doc) assigns a field: a string
\* held by a Reference field becomes Model.ref(value), an array held by a
\* Collection field a Collection; the values Converter.fromFirestore builds
\* are model instances, Collections and stored values, and are kept.
ModelHandlerSet(model, field, value) ==
    IF field \notin DOMAIN RoundTripSchema(model) THEN value
    ELSE IF RoundTripSchema(model)[field].type = "Reference" /\ value.t = "String"
    THEN Ref(RoundTripSchema(model)[field].model,
             DocPath(NoRef, PathOf(RoundTripSchema(model)[field].model), value.v))
    ELSE IF RoundTripSchema(model)[field].type = "Collection" /\ value.t = "Array"
    THEN Members(value.items)
    ELSE value

\* firestore.collection(path + '/' + field).get(): the documents of the
\* collection in the order of their names.
CollectionGet(docs, path, field) ==
    LET found == { q \in DOMAIN docs :
                     /\ Len(q) = Len(path) + 2
                     /\ SubSeq(q, 1, Len(path) + 1) = Append(path, field) }
        Nth(k) == CHOOSE q \in found :
                      Cardinality({ o \in found : o[Len(o)] < q[Len(q)] }) = k - 1
    IN  [k \in 1..Cardinality(found) |-> Nth(k)]

\* Converter.fromFirestore(doc, model, query, { returnAllFields }) followed by
\* new model(formatted, doc); populated tells whether Query.execPopulate has
\* run on doc for every Reference, array of References and Collection, and
\* on the members of its Collections for their References.
RECURSIVE fromFirestore(_, _, _, _, _)
fromFirestore(docs, path, model, populated, returnAllFields) ==
    LET data == docs[path]
        schema == RoundTripSchema(model)
        Returned(f) ==
            IF schema[f].type = "Collection" THEN populated
            ELSE f \in DOMAIN data /\ data[f].t # "Undefined"
        Item(f, value) ==
            IF value.t # "DocumentReference" THEN value
            ELSE IF populated /\ value.path \in DOMAIN docs
            THEN fromFirestore(docs, value.path, schema[f].model, FALSE, returnAllFields)
            ELSE Ref(schema[f].model, value.path)
        Formatted(f) ==
            CASE schema[f].type = "Collection" ->
                    Members([k \in 1..Len(CollectionGet(docs, path, f)) |->
                                fromFirestore(docs, CollectionGet(docs, path, f)[k],
                                              schema[f].model, populated,
                                              returnAllFields)])
              [] schema[f].type # "Collection" /\ data[f].t = "Null" -> Null
              [] schema[f].type = "Reference" /\ data[f].t = "DocumentReference" ->
                    Item(f, data[f])
              [] schema[f].type = "Array" /\ data[f].t = "Array" ->
                    Arr([k \in 1..Len(data[f].items) |-> Item(f, data[f].items[k])])
              [] OTHER -> data[f]
        others == IF returnAllFields THEN DOMAIN data \ DOMAIN schema ELSE {}
    IN  Instance(model, path,
                 [f \in {"id"} \cup { g \in DOMAIN schema : Returned(g) } \cup others |->
                     IF f = "id" THEN DocId(path[Len(path)])
                     ELSE IF f \in DOMAIN schema
                     THEN ModelHandlerSet(model, f, Formatted(f))
                     ELSE ModelHandlerSet(model, f, data[f])],
                 {})

\* Post.doc(id).populate({ user: {}, topics: {}, comments: ['user'] })
\* .get({ returnAllFields: true }): null when there is no such document.
getById(docs, model, path) ==
    IF path \notin DOMAIN docs THEN Null
    ELSE fromFirestore(docs, path, model, TRUE, TRUE)

\* The documents of a run before the save: a user and a topic; no document
\* is at MissingUser.
ExistingUser == DocPath(NoRef, "test_users", 10)
ExistingTopic == DocPath(NoRef, "test_topics", 11)
MissingUser == DocPath(NoRef, "test_users", 12)

ExistingDocs ==
    (ExistingUser :> [displayName |-> Str("ann")])
    @@ (ExistingTopic :> [name |-> Str("tla")])

\* The data Post.create is called with, field by field.
RoundTripInputs ==
    [title |-> {Absent, Str("hello"), Null},
     meta |-> {Absent, Obj("Object", [a |-> Obj("Object", [b |-> Num(1)])])},
     user |-> {Absent, New("User", [displayName |-> Str("john")]),
               Ref("User", ExistingUser), Ref("User", MissingUser)},
     topics |-> {Absent, Arr(<<>>), Arr(<< New("Topic", [name |-> Str("one")]) >>),
                 Arr(<< Ref("Topic", ExistingTopic), New("Topic", [name |-> Str("one")]) >>)},
     comments |-> {Absent, Members(<<>>),
                   Members(<< New("Comment", [content |-> Str("one")]) >>),
                   Members(<< New("Comment", [content |-> Str("one")]),
                              New("Comment", [content |-> Str("two")]) >>),
                   Members(<< New("Comment",
                                  [content |-> Str("one"),
                                   user |-> New("User", [displayName |-> Str("john")])]) >>)}]

\* The ids firestore.collection(path).doc() generates in a run: any ids, all
\* different, in any order.
IdSupplies ==
    { ids \in [1..MaxDocs -> 1..MaxDocs] : \A i, j \in 1..MaxDocs : ids[i] = ids[j] => i = j }

\* new Post(data)
InitRoundTrip ==
    /\ IdleValidator
    /\ \E title \in RoundTripInputs.title, meta \in RoundTripInputs.meta,
          user \in RoundTripInputs.user, topics \in RoundTripInputs.topics,
          comments \in RoundTripInputs.comments :
           /\ props = ("p" :> DataOf([title |-> title, meta |-> meta, user |-> user,
                                      topics |-> topics, comments |-> comments]))
           /\ changes = ("p" :> DataOf([title |-> title, meta |-> meta, user |-> user,
                                        topics |-> topics, comments |-> comments]))
    /\ fireRef = ("p" :> NoRef)
    /\ items = EmptyMap
    /\ deleted = EmptyMap
    /\ store = ExistingDocs
    /\ nextId = 1
    /\ docId = ("p" :> Undefined)
    /\ batch = NoBatch
    /\ last = NoCall
    /\ steps = 0
    /\ query = NewQuery
    /\ registry = NoRegistry

\* The post of the run, as an instance held by value.
Held == Instance("Post", fireRef["p"], props["p"], DOMAIN changes["p"])

\* The save has returned r and c is what a commit of its session gives: the
\* session is committed when the save has come to its end.
Created(r, c) ==
    /\ store' = (IF r.ret = "true" /\ c.ok THEN c.store ELSE store)
    /\ fireRef' = ("p" :> r.inst.ref)
    /\ props' = ("p" :> (IF r.ret = "true" /\ c.ok THEN ResetByValue(r.inst) ELSE r.inst).props)
    /\ changes' = ("p" :> IF r.ret = "true" /\ c.ok THEN EmptyMap
                          ELSE [f \in r.inst.changes |-> r.inst.props[f]])
    /\ last' = [op |-> "save",
                ret |-> IF r.ret = "true" /\ ~c.ok THEN "CommitError" ELSE r.ret,
                writes |-> r.st.ops]
    /\ steps' = steps + 1
    /\ UNCHANGED <<validatorVars, items, deleted, nextId, docId, batch, query, registry>>

\* await post.save({ callbacks: false, validate: false }) of Post.create
Create(ids) ==
    /\ last.op = "none"
    /\ Created(saveInstance(Held, RootParams, Supplied(ids)),
               ApplyOps(store, saveInstance(Held, RootParams, Supplied(ids)).st.ops, 1))

\* await Post.doc(post.getId()).populate(...).get({ returnAllFields: true })
GetById ==
    /\ last.op = "save"
    /\ last.ret = "true"
    /\ last' = [op |-> "get", ret |-> getById(store, "Post", fireRef["p"])]
    /\ steps' = steps + 1
    /\ UNCHANGED <<validatorVars, fireRef, props, changes, items, deleted, store, nextId,
                   docId, batch, query, registry>>

NextRoundTrip ==
    \/ \E ids \in IdSupplies : Create(ids)
    \/ GetById

SpecRoundTrip == InitRoundTrip /\ [][NextRoundTrip]_vars

-----------------------------------------------------------------------------
(* Claims on the round trip *)

\* Whether a fetched value holds what a saved value holds: a scalar is the
\* same scalar, a nested object has the same keys with the same values, an
\* array has the same length and the same entry at every position, a
\* sub-collection has as many members and every saved member among them, an
\* instance is of the same model, at the same document, with every field of
\* the saved instance.
RECURSIVE SameValue(_, _)
SameValue(saved, got) ==
    CASE isModelInstance(saved) ->
            /\ isModelInstance(got)
            /\ got.t = saved.t
            /\ got.ref = saved.ref
            /\ \A f \in DOMAIN saved.props :
                  f \in DOMAIN got.props /\ SameValue(saved.props[f], got.props[f])
      [] saved.t = "Array" ->
            /\ got.t = "Array"
            /\ Len(got.items) = Len(saved.items)
            /\ \A i \in 1..Len(saved.items) : SameValue(saved.items[i], got.items[i])
      [] saved.t = "Collection" ->
            /\ got.t = "Collection"
            /\ Len(got.items) = Len(saved.items)
            /\ \A i \in 1..Len(saved.items) :
                  \E j \in 1..Len(got.items) : SameValue(saved.items[i], got.items[j])
      [] saved.t = "Object" ->
            /\ got.t = "Object"
            /\ DOMAIN got.props = DOMAIN saved.props
            /\ \A f \in DOMAIN saved.props : SameValue(saved.props[f], got.props[f])
      [] OTHER -> got = saved

\* C11: once an entity is saved, fetching it by id with all fields returned
\* and its references and sub-collections populated yields an entity whose
\* field values equal the saved ones: scalar fields, nested objects, single
\* references, arrays of references and the members of sub-collections.
C11_RoundTripYieldsSavedValues ==
    last.op = "get" => SameValue(Held, last.ret)

\* The instances a save goes through from inst, each with the collection its
\* role puts it in: inst itself in collection, every instance a field holds,
\* directly or in an array or a nested object, in the collection of its own
\* model, and every member of a Collection field in the sub-collection of that
\* name under the document of inst.
RECURSIVE Placed(_, _)
Placed(inst, collection) ==
    {[path |-> inst.ref, collection |-> collection]}
    \cup UNION { Placed(entry.value, <<PathOf(entry.value.t)>>) :
                   entry \in { e \in Range(flattenObject(inst, <<>>)) :
                                 isModelInstance(e.value) } }
    \cup UNION { Placed(Child(inst.props[path[1]], path[2]), Append(inst.ref, path[1])) :
                   path \in Range(MemberPathsFrom(
                                      inst,
                                      SelectSeq(KeysOf(inst),
                                                LAMBDA f : inst.props[f].t = "Collection"),
                                      1)) }

\* C21: every create write of a save cascade is at the path of the role of
\* the entity it writes: the top-level entity and every newly saved referenced
\* entity in the collection of its own type, every container member in the
\* sub-collection named after the container field under the document of its
\* parent, referenced entities reached through a container member included.
C21_CreatesAreWrittenWhereTheRoleDictates ==
    (last.op = "save" /\ last.ret = "true") =>
        \A k \in 1..Len(last.writes) :
            last.writes[k].kind = "set" =>
                \E placed \in Placed(Held, <<PathOf("Post")>>) :
                    /\ placed.path = last.writes[k].path
                    /\ SubSeq(placed.path, 1, Len(placed.path) - 1) = placed.collection

\* C22: an execution that populates a reference, single or an element of an
\* array, whose target document does not exist raises no error, for the first
\* result document that points at the missing target and for every other one.
C22_MissingTargetNeverRaises ==
    (/\ last.op = "get"
     /\ "requests" \in DOMAIN last
     /\ \E k \in 1..Len(last.requests) : last.requests[k].path \notin DOMAIN store) =>
        last.ret = "ok"

-----------------------------------------------------------------------------
(* SpecMisuse: calls given a session, a cursor, a filter operator or a     *)
(* populate value that the library refuses                                 *)

\* options.session: none, a batch, a transaction, and two values that are
\* neither.
WriteBatch == [t |-> "WriteBatch"]
InvalidSessions == {Str("not-null-not-false"), Obj("Object", EmptyMap)}
SessionValues == {Undefined, WriteBatch, [t |-> "Transaction"]} \cup InvalidSessions

\* utils.getSession: TRUE when it throws.
getSessionThrows(session) ==
    Truthy(session) /\ constructorName(session) \notin {"WriteBatch", "Transaction"}

\* Query.Operators
Operators == {"$eq", "$ne", "$lt", "$gt", "$lte", "$gte", "$in", "$nin", "$ac", "$aca"}

\* Conditions: none, or { title: { <operator>: <value> } }.
NoWhere == [operator |-> "none"]
Where(operator, value) == [operator |-> operator, value |-> value]
WhereValues ==
    {NoWhere, Where("$eq", Str("a")), Where("$eq", Str("z")), Where("$invalid", Str("a"))}

\* Query.toFirestore, the loop on options.where: TRUE when it throws.
whereThrows(where) == where.operator # "none" /\ where.operator \notin Operators

\* What populate() is called with: a field, the conditions of its query and
\* the field its own populate names, if any.
NoPopulate == [field |-> ""]
PopulateValue(field, where, nested) == [field |-> field, where |-> where, populate |-> nested]
PopulateValues ==
    {PopulateValue("title", NoWhere, ""), PopulateValue("test", NoWhere, ""),
     PopulateValue("comments", NoWhere, ""),
     PopulateValue("comments", Where("$invalid", Str("a")), ""),
     PopulateValue("comments", NoWhere, "content")}

\* Query.formatPopulate, the checks of one field.
Relational(rules) ==
    \/ rules.type \in {"Reference", "Collection"}
    \/ "of" \in DOMAIN rules /\ rules.of = "Reference"

\* Query.formatPopulate(queries, schema): TRUE when it throws, on the field
\* or, through the recursion, on the field of a nested populate.
formatPopulateThrows(value, model) ==
    \/ value.field \notin DOMAIN RoundTripSchema(model)
    \/ ~Relational(RoundTripSchema(model)[value.field])
    \/ /\ value.populate # ""
       /\ \/ value.populate \notin DOMAIN RoundTripSchema(RoundTripSchema(model)[value.field].model)
          \/ ~Relational(RoundTripSchema(RoundTripSchema(model)[value.field].model)
                             [value.populate])

\* A store read or a commit a call issues, by the library itself or by a
\* hook of the fixtures the library calls.
StoreIO(kind, path, by) == [kind |-> kind, path |-> path, by |-> by]

MisuseErrors == {"InvalidSession", "InvalidCursor", "UnsupportedOperator", "InvalidPopulate"}

\* The documents the Firestore query of Post.find(where) returns.
Matching(docs, where) ==
    SelectSeq(Ordered(docs, "none"),
              LAMBDA id : where.operator = "none" \/ docs[PostPath(id)].title = where.value)

\* Query.get(options) of Post.find(where).populate(...): getSession, then
\* toFirestore(this.query), then the read; session.get of a batch is not a
\* function. execPopulate builds the query of a Collection field with
\* toFirestore(options, path) for each document the read returned.
getWithSession(docs, q, session) ==
    LET read == << StoreIO("get", <<PathOf("Post")>>, "library") >>
        found == Matching(docs, q.where)
    IN  IF getSessionThrows(session)
        THEN [ret |-> "InvalidSession", io |-> <<>>, ids |-> <<>>]
        ELSE IF whereThrows(q.where)
        THEN [ret |-> "UnsupportedOperator", io |-> <<>>, ids |-> <<>>]
        ELSE IF session = WriteBatch
        THEN [ret |-> "TypeError", io |-> <<>>, ids |-> <<>>]
        ELSE IF q.populate = NoPopulate \/ found = <<>>
        THEN [ret |-> "ok", io |-> read, ids |-> found]
        ELSE IF whereThrows(q.populate.where)
        THEN [ret |-> "UnsupportedOperator", io |-> read, ids |-> <<>>]
        ELSE [ret |-> "ok",
              io |-> read \o [i \in 1..Len(found) |->
                                StoreIO("get", Append(PostPath(found[i]), q.populate.field),
                                        "library")],
              ids |-> found]

\* A resolver or a session that Query.update and Query.delete are to refuse.
Misused(q, session) ==
    \/ getSessionThrows(session)
    \/ whereThrows(q.where)
    \/ q.populate # NoPopulate /\ whereThrows(q.populate.where)

\* Query.update(data, options) and Query.delete(options) on Post, whose hooks
\* make useModel true: getSession, then this.get with the transaction or
\* null; no document is read when the resolver is misused and returns, and
\* the batch the call made is committed.
bulkWithSession(docs, q, session) ==
    LET r == getWithSession(docs, q, IF session.t = "Transaction" THEN session ELSE Undefined)
    IN  IF getSessionThrows(session)
        THEN [ret |-> "InvalidSession", io |-> <<>>, ids |-> <<>>]
        ELSE IF r.ret # "ok" THEN r
        ELSE [ret |-> "ok",
              io |-> r.io \o (IF session = Undefined
                              THEN << StoreIO("commit", <<>>, "library") >> ELSE <<>>),
              ids |-> r.ids]

\* Post.beforeDelete of the fixtures: an instance with an id and no user
\* reads its document.
PostBeforeDelete(inst) ==
    IF "user" \notin DOMAIN inst.props /\ inst.ref # NoRef
    THEN << StoreIO("get", inst.ref, "hook") >>
    ELSE <<>>

\* Model.delete(options) with an invalid session: the hook, the check of the
\* reference, getSession.
deleteWithSession(inst, callbacks) ==
    [ret |-> IF inst.ref = NoRef THEN "false" ELSE "InvalidSession",
     io |-> IF callbacks \in {"true", "beforeDelete"} THEN PostBeforeDelete(inst) ELSE <<>>]

\* Model.save(options) with an invalid session: Post.beforeSave reads
\* nothing, and getSession comes before the validation and its lookups.
saveWithSession(inst, callbacks) == [ret |-> "InvalidSession", io |-> <<>>]

\* Posts p1..p5 with one of the sets of titles, every author and topic there.
InitMisuse ==
    /\ IdleValidator
    /\ fireRef = EmptyMap
    /\ props = EmptyMap
    /\ changes = EmptyMap
    /\ items = EmptyMap
    /\ deleted = EmptyMap
    /\ \E titles \in QueryConfigs.titles :
           store = QueryStore(titles, <<"u1", "u1", "u1", "u1", "u1">>,
                              << <<"t1">>, <<"t1">>, <<"t1">>, <<"t1">>, <<"t1">> >>)
    /\ nextId = 1
    /\ docId = EmptyMap
    /\ batch = NoBatch
    /\ last = NoCall
    /\ steps = 0
    /\ query = [where |-> NoWhere, populate |-> NoPopulate]
    /\ registry = NoRegistry

\* A call has returned or thrown r after the store I/O r.io.
Called(op, q, r) ==
    /\ query' = q
    /\ UNCHANGED registry
    /\ last' = [op |-> op, ret |-> r.ret, io |-> r.io]
    /\ UNCHANGED <<validatorVars, fireRef, props, changes, items, deleted, store,
                   nextId, docId, batch>>

\* Post.find(where)
Find(where) ==
    /\ steps = 0
    /\ steps' = steps
    /\ Called("find", [where |-> where, populate |-> NoPopulate], [ret |-> "ok", io |-> <<>>])

\* query.populate(value)
PopulateWith(value) ==
    /\ steps = 0
    /\ steps' = steps
    /\ Called("populate",
              IF formatPopulateThrows(value, "Post") THEN query
              ELSE [query EXCEPT !.populate = value],
              [ret |-> IF formatPopulateThrows(value, "Post") THEN "InvalidPopulate" ELSE "ok",
               io |-> <<>>])

\* The cursors the pagination methods are to refuse: an array, a plain
\* object, Post.ref(id), new Post(), a fetched Topic.
RefusedCursors ==
    {Arr(<<>>), Obj("Object", EmptyMap), Ref("Post", PostPath("p1")),
     New("Post", EmptyMap), [t |-> "Topic", e |-> "t1", docSnap |-> <<"test_topics", "t1">>]}

\* query.after(value), startAt, endAt, endBefore with such a cursor.
Paginate(method, value) ==
    /\ steps = 0
    /\ steps' = steps
    /\ ~checkCursorValue(value)
    /\ Called(method, query, [ret |-> "InvalidCursor", io |-> <<>>])

\* await query.get({ session })
GetWith(session) ==
    /\ steps < MaxRuns
    /\ steps' = steps + 1
    /\ Called("get", query, getWithSession(store, query, session))

\* await query.update(data, { session }) and await query.delete({ session })
BulkWith(op, session) ==
    /\ steps < MaxRuns
    /\ steps' = steps + 1
    /\ Misused(query, session)
    /\ Called(op, query, bulkWithSession(store, query, session))

\* await Post.doc(id).delete({ callbacks, session }) and
\* await new Post().delete({ callbacks, session })
DeleteWith(inst, callbacks, session) ==
    /\ steps < MaxRuns
    /\ steps' = steps + 1
    /\ getSessionThrows(session)
    /\ Called("delete", query, deleteWithSession(inst, callbacks))

\* await Post.doc(id).update(data, { callbacks, session }) and
\* await Post.create(data, { callbacks, session })
SaveWith(inst, callbacks, session) ==
    /\ steps < MaxRuns
    /\ steps' = steps + 1
    /\ getSessionThrows(session)
    /\ Called("save", query, saveWithSession(inst, callbacks))

NextMisuse ==
    \/ \E where \in WhereValues : Find(where)
    \/ \E value \in PopulateValues : PopulateWith(value)
    \/ \E method \in {"after", "startAt", "endAt", "endBefore"}, value \in RefusedCursors :
          Paginate(method, value)
    \/ \E session \in SessionValues : GetWith(session)
    \/ \E op \in {"update", "delete all"}, session \in SessionValues : BulkWith(op, session)
    \/ \E inst \in {Ref("Post", PostPath("p1")), New("Post", [title |-> Str("hello")])},
          callbacks \in {"true", "false"}, session \in InvalidSessions :
          DeleteWith(inst, callbacks, session)
    \/ \E inst \in {Ref("Post", PostPath("p1")), New("Post", [title |-> Str("hello")])},
          callbacks \in {"true", "false"}, session \in InvalidSessions :
          SaveWith(inst, callbacks, session)

SpecMisuse == InitMisuse /\ [][NextMisuse]_vars

\* C23: a misuse error (an invalid session passed to save, delete, get, bulk
\* update or bulk delete, a refused cursor, an unsupported filter operator in
\* the query or in a nested population query, populate on a field that is not
\* relational) is raised before the library has issued any store I/O in the
\* call.
C23_MisuseErrorsPrecedeStoreIO ==
    (last.op # "none" /\ last.ret \in MisuseErrors) =>
        \A k \in 1..Len(last.io) : last.io[k].by # "library"

-----------------------------------------------------------------------------
(* Further claims on the validator *)

\* C24: Validator.check rejects a value given for a field declared
\* write: 'admin' (an error is recorded for the field and the field is left
\* out of the sanitized data) unless the auth value of the caller is exactly
\* true: it rejects with a user id, with false and with no auth value set.
C24_AdminFieldNeedsAuthTrue ==
    (/\ vResult.ran
     /\ "approved" \in DOMAIN vData
     /\ vSchema.approved.write = "admin"
     /\ vOptions.authValue # "true") =>
        /\ <<"approved">> \in ErrorKeys(vResult.errors)
        /\ "approved" \notin DOMAIN vResult.data

-----------------------------------------------------------------------------
(* SpecRegistry: Metadata, the registry of the specs of the models *)

\* The constructors of a run: two unrelated classes both named Post, and
\* Draft, which extends the first of them.
ModelTypes == {"PostA", "PostB", "Draft"}
NameOf(type) == IF type = "Draft" THEN "Draft" ELSE "Post"
ParentOf(type) == IF type = "Draft" THEN "PostA" ELSE "Model"

\* `${model.name}_${count}`
ModelKey(name, count) == name \o "_" \o ToString(count)

\* model[Symbol.for('modelKey')]: the own property of the constructor, or
\* the one it inherits from the class it extends; "" when there is none.
KeyProperty(reg, type) ==
    IF type \in DOMAIN reg.keys THEN reg.keys[type]
    ELSE IF ParentOf(type) \in DOMAIN reg.keys THEN reg.keys[ParentOf(type)]
    ELSE ""

\* Metadata.getModelKey: the property when it reads one; else the first
\* `${name}_${count}` that this.models does not hold, defined on the model.
getModelKey(reg, type) ==
    LET count == CHOOSE n \in 1..(Cardinality(ModelTypes) + 1) :
                     /\ ModelKey(NameOf(type), n) \notin DOMAIN reg.models
                     /\ \A m \in 1..(n - 1) : ModelKey(NameOf(type), m) \in DOMAIN reg.models
        key == IF KeyProperty(reg, type) # "" THEN KeyProperty(reg, type)
               ELSE ModelKey(NameOf(type), count)
    IN  [reg |-> [reg EXCEPT !.keys = IF KeyProperty(reg, type) # "" THEN @
                                      ELSE (type :> key) @@ @,
                             !.handed = (type :> key) @@ @],
         key |-> key]

\* Metadata.initModelData, with the fields the registry operations read.
NoSpecs == [formatted |-> FALSE, inspected |-> FALSE, config |-> Null, schema |-> Null]

\* if (!this.models[modelKey]) { this.initModelData(modelKey); }
Initialised(reg, key) ==
    IF key \in DOMAIN reg.models THEN reg
    ELSE [reg EXCEPT !.models = (key :> NoSpecs) @@ @]

\* A field declared in its short form, by its constructor, and the rule
\* Schema.format makes of it; a rule given as { type: '...' } is kept.
Declared(type) == [t |-> "Function", name |-> type]

SchemaFormat(schema) ==
    IF schema.t = "Null" THEN schema
    ELSE Obj("Object",
             [f \in DOMAIN schema.props |->
                 IF schema.props[f].t = "Function"
                 THEN Obj("Object", [type |-> Str(schema.props[f].name)])
                 ELSE schema.props[f]])

\* Metadata.getCollection
getCollection(reg, type) ==
    [reg |-> getModelKey(reg, type).reg,
     ret |-> IF getModelKey(reg, type).key \in DOMAIN reg.collections
             THEN reg.collections[getModelKey(reg, type).key] ELSE Null]

\* Metadata.setCollection
setCollection(reg, type, collection) ==
    [reg |-> [getModelKey(reg, type).reg EXCEPT
                 !.collections = (getModelKey(reg, type).key :> collection) @@ @],
     ret |-> Undefined]

\* Metadata.getModelSpecs: inspectModel finds no static schema and no static
\* config on a decorated class, and the specs are marked inspected.
getModelSpecs(reg, type) ==
    LET key == getModelKey(reg, type).key
        after == [Initialised(getModelKey(reg, type).reg, key) EXCEPT
                     !.models[key].inspected = TRUE]
    IN  [reg |-> after, ret |-> after.models[key]]

\* Metadata.getModelSchema: null without specs or without a schema; the
\* schema is formatted the first time it is returned.
getModelSchema(reg, type) ==
    LET key == getModelKey(reg, type).key
        before == getModelKey(reg, type).reg
    IN  IF key \notin DOMAIN before.models THEN [reg |-> before, ret |-> Null]
        ELSE IF before.models[key].schema = Null THEN [reg |-> before, ret |-> Null]
        ELSE IF ~before.models[key].formatted
        THEN [reg |-> [before EXCEPT !.models[key].schema = SchemaFormat(@),
                                     !.models[key].formatted = TRUE],
              ret |-> SchemaFormat(before.models[key].schema)]
        ELSE [reg |-> before, ret |-> before.models[key].schema]

\* Metadata.setModelSchema
setModelSchema(reg, type, schema) ==
    LET key == getModelKey(reg, type).key
    IN  [reg |-> [Initialised(getModelKey(reg, type).reg, key) EXCEPT
                     !.models[key].schema = schema],
         ret |-> Undefined]

\* Metadata.setSchemaField
setSchemaField(reg, type, field, rules) ==
    LET key == getModelKey(reg, type).key
    IN  [reg |-> [Initialised(getModelKey(reg, type).reg, key) EXCEPT
                     !.models[key].schema =
                         IF @ = Null THEN Obj("Object", (field :> rules))
                         ELSE Obj("Object", (field :> rules) @@ @.props)],
         ret |-> Undefined]

\* Metadata.setModelConfig: the options over the pluralised name as the path.
setModelConfig(reg, type, options) ==
    LET key == getModelKey(reg, type).key
    IN  [reg |-> [Initialised(getModelKey(reg, type).reg, key) EXCEPT
                     !.models[key].config =
                         Obj("Object", options @@ [path |-> Str(NameOf(type) \o "s"),
                                                   ownerField |-> Null])],
         ret |-> Undefined]

\* The field each class of a run declares, and the path it is given.
FieldOf(type) ==
    CASE type = "PostA" -> "title"
      [] type = "PostB" -> "other"
      [] type = "Draft" -> "draft"

InitRegistry ==
    /\ IdleValidator
    /\ fireRef = EmptyMap
    /\ props = EmptyMap
    /\ changes = EmptyMap
    /\ items = EmptyMap
    /\ deleted = EmptyMap
    /\ store = EmptyMap
    /\ nextId = 1
    /\ docId = EmptyMap
    /\ batch = NoBatch
    /\ last = NoCall
    /\ steps = 0
    /\ query = EmptyMap
    /\ registry = NoRegistry

\* The registry operations of a run, at most.
MaxAccesses == 4

\* A registry operation on a model has returned r.
Accessed(op, type, r) ==
    /\ steps < MaxAccesses
    /\ steps' = steps + 1
    /\ registry' = r.reg
    /\ last' = [op |-> op, type |-> type, ret |-> r.ret]
    /\ UNCHANGED <<validatorVars, fireRef, props, changes, items, deleted, store, nextId,
                   docId, batch, query>>

GetCollection(type) == Accessed("getCollection", type, getCollection(registry, type))

\* Storage.setCollection(model, new Collection(model))
SetCollection(type) ==
    Accessed("setCollection", type,
             setCollection(registry, type, [t |-> "Collection", model |-> type]))

GetModelSpecs(type) == Accessed("getModelSpecs", type, getModelSpecs(registry, type))

GetModelSchema(type) == Accessed("getModelSchema", type, getModelSchema(registry, type))

\* Storage.setModelSchema(model, { <field>: { type: 'String' } })
SetModelSchema(type) ==
    Accessed("setModelSchema", type,
             setModelSchema(registry, type,
                            Obj("Object",
                                (FieldOf(type) :> Obj("Object", [type |-> Str("String")])))))

\* @Field() on a field of the class: Storage.setSchemaField(model, field, String)
SetSchemaField(type) ==
    Accessed("setSchemaField", type,
             setSchemaField(registry, type, FieldOf(type), Declared("String")))

\* @Schema({ path }): Storage.setModelConfig(model, { path })
SetModelConfig(type) ==
    Accessed("setModelConfig", type,
             setModelConfig(registry, type, [path |-> Str(FieldOf(type))]))

NextRegistry ==
    \/ \E type \in ModelTypes : GetCollection(type)
    \/ \E type \in ModelTypes : SetCollection(type)
    \/ \E type \in ModelTypes : GetModelSpecs(type)
    \/ \E type \in ModelTypes : GetModelSchema(type)
    \/ \E type \in ModelTypes : SetModelSchema(type)
    \/ \E type \in ModelTypes : SetSchemaField(type)
    \/ \E type \in ModelTypes : SetModelConfig(type)

SpecRegistry == InitRegistry /\ [][NextRegistry]_vars

\* C25: after any sequence of schema, config, collection and specs accesses,
\* no two distinct models have been handed the same registry key, be they of
\* the same name or one a subclass of the other.
C25_ModelsNeverShareAKey ==
    \A a, b \in DOMAIN registry.handed :
        a # b => registry.handed[a] # registry.handed[b]

\* ---------------------------------------------------------------------------
\* SpecConverter: Converter.fromFirestore on the documents and the models of
\* the Converter tests, under every auth value, selection and get option.
\* ---------------------------------------------------------------------------

\* test/Converter: ModelA, ModelB, ModelC. The schema in declaration order,
\* the fields with a read rule, the Reference fields and the ownerField.
ConverterModels ==
    [ModelA |-> [schema |-> <<"title", "private">>, read |-> {"private"},
                 references |-> {}, ownerField |-> "id"],
     ModelB |-> [schema |-> <<"title", "ownerB", "private">>, read |-> {"private"},
                 references |-> {"ownerB"}, ownerField |-> "ownerB"],
     ModelC |-> [schema |-> <<"ownerC", "private", "nullVal">>, read |-> {"private"},
                 references |-> {}, ownerField |-> "ownerC"]]

\* test/Converter: fireData
fireData ==
    [title |-> Str("Post title"), other |-> Str("not defined in schema"),
     private |-> Str("restricted data"),
     ownerB |-> DocumentReference(<<"model_as", "owner-b">>),
     ownerC |-> Str("owner-c"), nullVal |-> Null]

\* test/Converter: fireDoc, and a document of the same id without owner.
ConverterDocs ==
    {[id |-> "doc-id", data |-> fireData],
     [id |-> "doc-id", data |-> [f \in {"title", "other", "private", "nullVal"} |-> fireData[f]]]}

\* query.auth: not set on the query data, the null of a new Query, the admin,
\* false, and user ids.
QueryAuthValues == {"undefined", "null", "true", "false", "owner-b", "owner-c", "doc-id", "other"}

\* query.fields: null, or the selected fields.
NoFields == <<>>
FieldSelections == {NoFields, <<"title", "private">>, <<"id", "other">>}

\* GetOptions over the defaults of Storage.config.getOptions; the create and
\* update times stay at their default, false.
ConverterOptions ==
    [populatePrimaryKey : BOOLEAN, returnAllFields : BOOLEAN, returnAsJSON : BOOLEAN]

\* !query.fields || query.fields.includes(field)
Selected(q, field) == q.fields = NoFields \/ field \in Range(q.fields)

\* Converter.fromFirestore, "Check the auth": the owner id the auth value is
\* compared with; Undefined when the test is not reached.
OwnerId(doc, model) ==
    LET ownerField == ConverterModels[model].ownerField IN
    IF ownerField = "id" THEN Str(doc.id)
    ELSE IF ownerField \notin DOMAIN doc.data THEN Undefined
    ELSE IF doc.data[ownerField].t = "DocumentReference"
         THEN Str(doc.data[ownerField].path[Len(doc.data[ownerField].path)])
         ELSE doc.data[ownerField]

\* Converter.fromFirestore, "Check the auth": the field is skipped.
AuthSkips(doc, model, q, field) ==
    /\ field \in ConverterModels[model].read
    /\ q.auth \notin {"undefined", "true"}
    /\ \/ q.auth = "false"
       \/ OwnerId(doc, model) = Undefined
       \/ Str(q.auth) # OwnerId(doc, model)

\* Converter.fromFirestore, "Return fields defined in schema first": the
\* value of a schema field that is kept, Undefined for one that is left out.
SchemaValue(doc, model, q, options, field) ==
    IF field \notin DOMAIN doc.data \/ ~Selected(q, field) THEN Undefined
    ELSE IF AuthSkips(doc, model, q, field) THEN Undefined
    ELSE IF doc.data[field].t = "DocumentReference" /\ field \in ConverterModels[model].references
         THEN IF ~options.returnAsJSON THEN [t |-> "Model", ref |-> doc.data[field].path]
              ELSE IF options.populatePrimaryKey
                   THEN [t |-> "Object", id |-> doc.data[field].path[Len(doc.data[field].path)]]
                   ELSE Undefined
    ELSE doc.data[field]

\* Converter.fromFirestore(doc, model, query, options): the formatted object,
\* returned as it is with returnAsJSON and as new model(formatted, doc)
\* otherwise, whose properties are the same (a document of the tests is no
\* QueryDocumentSnapshot and the models declare no default).
Formatted(doc, model, q, options) ==
    LET schema == ConverterModels[model].schema
        kept == {f \in Range(schema) : SchemaValue(doc, model, q, options, f) # Undefined}
        others == IF options.returnAllFields
                  THEN {f \in DOMAIN doc.data \ kept : Selected(q, f)}
                  ELSE {}
        key == IF options.populatePrimaryKey /\ Selected(q, "id") THEN {"id"} ELSE {}
    IN  [f \in key \cup kept \cup others |->
            IF f \in kept THEN SchemaValue(doc, model, q, options, f)
            ELSE IF f \in others THEN doc.data[f]
            ELSE Str(doc.id)]

InitConverter ==
    /\ IdleValidator
    /\ fireRef = EmptyMap
    /\ props = EmptyMap
    /\ changes = EmptyMap
    /\ items = EmptyMap
    /\ deleted = EmptyMap
    /\ store = EmptyMap
    /\ nextId = 1
    /\ docId = EmptyMap
    /\ batch = NoBatch
    /\ last = NoCall
    /\ steps = 0
    /\ \E auth \in AuthValues, fields \in FieldSelections :
           query = [auth |-> auth, fields |-> fields]
    /\ registry = NoRegistry

\* Converter.fromFirestore(doc, model, query, options)
Convert(doc, model, options) ==
    /\ last' = [op |-> "fromFirestore", doc |-> doc, model |-> model, options |-> options,
                ret |-> [json |-> options.returnAsJSON,
                         props |-> Formatted(doc, model, query, options)]]
    /\ UNCHANGED <<validatorVars, fireRef, props, changes, items, deleted, store, nextId,
                   docId, batch, steps, query, registry>>

NextConverter ==
    \E doc \in ConverterDocs, model \in DOMAIN ConverterModels, options \in ConverterOptions :
        Convert(doc, model, options)

SpecConverter == InitConverter /\ [][NextConverter]_vars

\* C26: a field with a read rule is in the converted output only when the
\* auth value of the query is true or is the owner id of the document (the
\* value of the owner field, the id of the referenced owner, or the document
\* id), whatever the get options are.
C26_ReadRuleHidesFieldFromOthers ==
    (last.op = "fromFirestore" /\ "private" \in DOMAIN last.ret.props) =>
        \/ query.auth = "true"
        \/ Str(query.auth) = OwnerId(last.doc, last.model)

\* ---------------------------------------------------------------------------
\* SpecCollection: the proxy of a Collection under push, pop, index
\* assignment and index deletion, on a post's comments that are all new or
\* all loaded.
\* ---------------------------------------------------------------------------

\* The operations on the collection of a run, at most.
MaxEdits == 4

\* Model.getId() is truthy: the instance has a reference or an id set for it.
HasId(e) == fireRef[e] # NoRef \/ docId[e] # Undefined

\* The deleteProperty trap of the proxy, on the members and the deleted list
\* of a collection c, at the index i of a member (from 1).
deleteProperty(c, i) ==
    [items |-> Splice(c.items, i - 1),
     deleted |-> IF fireRef[c.items[i]] # NoRef THEN Append(c.deleted, c.items[i])
                 ELSE c.deleted]

\* The defineProperty trap of the proxy for a model instance at the index i:
\* a free index is defined at once, a taken one after its member, when it has
\* an id, was put on the deleted list.
defineProperty(c, i, value) ==
    IF i > Len(c.items) THEN [c EXCEPT !.items = Append(@, value)]
    ELSE [items |-> [c.items EXCEPT ![i] = value],
          deleted |-> IF HasId(c.items[i]) THEN Append(c.deleted, c.items[i]) ELSE c.deleted]

\* The collection held by the comments field of a post.
CommentsOf(e) == [items |-> items[e], deleted |-> deleted[e]]

InitCollection ==
    /\ IdleValidator
    /\ InitFresh \/ InitLoaded(FALSE)
    /\ batch = NoBatch
    /\ last = NoCall
    /\ steps = 0
    /\ query = EmptyMap
    /\ registry = NoRegistry

\* An operation on post.comments has left the collection c.
Edited(e, op, c) ==
    /\ steps < MaxEdits
    /\ steps' = steps + 1
    /\ items' = [items EXCEPT ![e] = c.items]
    /\ deleted' = [deleted EXCEPT ![e] = c.deleted]
    /\ last' = [op |-> op]
    /\ UNCHANGED <<validatorVars, fireRef, props, changes, store, nextId, docId, batch,
                   query, registry>>

\* post.comments.push(comment): Set(length, comment) reaches defineProperty.
PushMember(e, member) ==
    Edited(e, "push", defineProperty(CommentsOf(e), Len(items[e]) + 1, member))

\* post.comments.pop(): DeletePropertyOrThrow(length - 1) reaches
\* deleteProperty; nothing happens on an empty collection.
PopMember(e) ==
    /\ items[e] # <<>>
    /\ Edited(e, "pop", deleteProperty(CommentsOf(e), Len(items[e])))

\* post.comments[i - 1] = comment, on a taken index.
SetMember(e, i, member) ==
    /\ i \in 1..Len(items[e])
    /\ Edited(e, "set", defineProperty(CommentsOf(e), i, member))

\* delete post.comments[i - 1], on a taken index.
DeleteMember(e, i) ==
    /\ i \in 1..Len(items[e])
    /\ Edited(e, "delete", deleteProperty(CommentsOf(e), i))

NextCollection ==
    \/ \E e \in Posts, member \in Comments : PushMember(e, member)
    \/ \E e \in Posts : PopMember(e)
    \/ \E e \in Posts, i \in 1..MaxEdits, member \in Comments : SetMember(e, i, member)
    \/ \E e \in Posts, i \in 1..MaxEdits : DeleteMember(e, i)

SpecCollection == InitCollection /\ [][NextCollection]_vars

\* C27: after any pushes, pops, index assignments and index deletions on a
\* collection, no instance is both a member of the collection and an entry
\* of its deleted list.
C27_MemberIsNeverPendingDeletion ==
    \A e \in Posts : Range(items[e]) \cap Range(deleted[e]) = {}

\* ---------------------------------------------------------------------------
\* SpecCreate: saves that create a document in a session whose commit fails.
\* ---------------------------------------------------------------------------

\* post = new Post({ title }), ann = new User({ username }), and a user that
\* was fetched, whose document another client has deleted since, and whose
\* username was assigned: the update of its document fails the commit.
InitCreate ==
    /\ IdleValidator
    /\ fireRef = [e \in Entities |-> IF e = "u2" THEN StaleRef ELSE NoRef]
    /\ props = [e \in Entities |->
                    CASE e \in Posts -> [title |-> Str("hello")]
                      [] e = "u1" -> [username |-> Str("ann")]
                      [] e = "u2" -> [id |-> DocId(0), username |-> Str("zed")]
                      [] OTHER -> EmptyMap]
    /\ changes = [e \in Entities |->
                    CASE e \in Posts -> [title |-> Str("hello")]
                      [] e = "u1" -> [username |-> Str("ann")]
                      [] e = "u2" -> [username |-> Str("zed")]
                      [] OTHER -> EmptyMap]
    /\ items = [e \in Posts |-> <<>>]
    /\ deleted = [e \in Posts |-> <<>>]
    /\ store = EmptyMap
    /\ nextId = 1
    /\ docId = [e \in Entities |-> Undefined]
    /\ batch = NoBatch
    /\ last = NoCall
    /\ steps = 0
    /\ query = EmptyMap
    /\ registry = NoRegistry

NextCreate ==
    \/ \E e \in Posts, user \in Users : AssignReference(e, user)
    \/ \E e \in Posts \cup Users, callbacks \in {"true", "false"},
          session \in {NoSession, Caller} :
          Save(e, callbacks, TRUE, FALSE, session, TRUE)
    \/ NewBatch
    \/ Commit

SpecCreate == InitCreate /\ [][NextCreate]_vars

\* C28: an instance whose save was the creation of its document has no
\* reference once the commit has failed, so that its next save is a creation
\* again: after a save in its own session that rejects with the error of the
\* commit, and after the failed commit of a caller's batch for each instance
\* whose afterSave callback was queued in it with isNew true.
C28_FailedCreateLeavesNoReference ==
    /\ (last.op = "save" /\ ~last.found.exists /\ last.ret = "CommitError") =>
           fireRef[last.e] = NoRef
    /\ (last.op = "commit" /\ last.ret = "CommitError") =>
           \A k \in 1..Len(last.cbs) :
               (last.cbs[k].method = "afterSave" /\ last.cbs[k].args = <<TRUE>>) =>
                   fireRef[last.cbs[k].model] = NoRef

-----------------------------------------------------------------------------
(* Further claims on Model.save *)

\* The write of a save at the document of the instance e, as the call left
\* it: committed to the store by the call, or the last one at that path in
\* the caller's batch.
OwnWrite(e) ==
    IF last'.session = NoSession THEN store'[fireRef'[e]]
    ELSE LET ks == {k \in 1..Len(batch'.ops) : batch'.ops[k].path = fireRef'[e]}
         IN  batch'.ops[CHOOSE k \in ks : \A j \in ks : j <= k].data

\* The positions, among the writes of the call, of those at a path.
WritesAt(path) == {k \in 1..Len(last'.writes) : last'.writes[k].path = path}

InitUnique ==
    /\ IdleValidator
    /\ fireRef = [e \in Entities |-> NoRef]
    /\ props = [e \in Entities |-> IF e \in Users THEN [username |-> Str("ann")] ELSE EmptyMap]
    /\ changes = [e \in Entities |-> IF e \in Users THEN [username |-> Str("ann")] ELSE EmptyMap]
    /\ items = [e \in Posts |-> <<>>]
    /\ deleted = [e \in Posts |-> <<>>]
    /\ store = EmptyMap
    /\ nextId = 1
    /\ docId = [e \in Entities |-> Undefined]
    /\ batch = NoBatch
    /\ last = NoCall
    /\ steps = 0
    /\ query = EmptyMap
    /\ registry = NoRegistry

NextUnique ==
    \/ \E e \in Users, callbacks \in {"true", "false"}, session \in {NoSession, Caller} :
          Save(e, callbacks, TRUE, FALSE, session, TRUE)
    \/ NewBatch
    \/ Commit

SpecUnique == InitUnique /\ [][NextUnique]_vars

\* The committed documents of the users that hold a username.
Holders(value) ==
    { path \in DOMAIN store :
        /\ Len(path) = 2 /\ path[1] = PathOf("User")
        /\ "username" \in DOMAIN store[path]
        /\ store[path].username = value }

\* C30: of two new users saved with the same value of the unique username,
\* each in its own session or both in one batch, at most one ends with a
\* committed document holding the value.
C30_UniqueValueIsCommittedOnce ==
    Cardinality(Holders(Str("ann"))) <= 1

\* ---------------------------------------------------------------------------
\* SpecNested: Post.find().populate({ comments: { populate: 'user' } }) once
\* the comments of two posts are read: the recursion of Query.execPopulate
\* starts one call for each post, and the calls share the cache.
\* ---------------------------------------------------------------------------

\* The comments of each post, in the order of the posts read.
NestedParents == << <<"c1", "c2">>, <<"c3">> >>
NestedComments == {"c1", "c2", "c3"}

\* The authors the comments may point to: u1 and u2 exist, u3 was deleted.
NestedAuthors == {"u1", "u2", "u3"}
UserPath(u) == DocPath(NoRef, PathOf("User"), u)

\* The users in the store, and the data of each comment snapshot.
NestedStore == [path \in {UserPath("u1"), UserPath("u2")} |-> [username |-> Str(path[2])]]
CommentData(author) == [content |-> Str("ok"), user |-> DocumentReference(UserPath(author))]

\* The synchronous part of the calls of execPopulate for the parents from the
\* n-th on, each up to its await: the requests of every comment against the
\* cache the calls before it left.
RECURSIVE Started(_, _, _, _)
Started(authors, n, cache, tasks) ==
    IF n > Len(NestedParents) THEN [cache |-> cache, tasks |-> tasks]
    ELSE LET docs == NestedParents[n]
             requests == [i \in 1..Len(docs) |->
                            FieldRequests(CommentData(authors[docs[i]]), "user", i)[1]]
             issued == Issue(requests, 1, cache, <<>>)
         IN  Started(authors, n + 1, issued.cache,
                     Append(tasks, [requests |-> issued.requests, state |-> "waiting",
                                    slots |-> <<>>]))

\* Promise.all of a call has every promise settled: the paths are settled at
\* once, the fetches when the store has answered.
Resumable(q, t) ==
    /\ q.tasks[t].state = "waiting"
    /\ \A k \in 1..Len(q.tasks[t].requests) :
          q.tasks[t].requests[k].promise = "fetch" =>
              q.tasks[t].requests[k].path \in q.settled

\* Query.execPopulate after Promise.all, for the call of one parent: a
\* QueryDocumentSnapshot enters the cache and fills its slot, the
\* DocumentSnapshot of a missing document leaves its slot empty, and every
\* alias is filled with what the cache holds by then.
Resumed(q, t) ==
    LET requests == q.tasks[t].requests
        Fetch(path) == \E k \in 1..Len(requests) :
                          requests[k].path = path /\ requests[k].promise = "fetch"
        cache == [path \in DOMAIN q.cache |->
                    IF Fetch(path) /\ path \in DOMAIN NestedStore
                    THEN QueryDocumentSnapshot(path) ELSE q.cache[path]]
    IN  [q EXCEPT !.cache = cache,
                  !.tasks[t].state = "done",
                  !.tasks[t].slots =
                      [k \in 1..Len(requests) |->
                          IF requests[k].promise = "alias" THEN <<cache[requests[k].path]>>
                          ELSE IF requests[k].path \in DOMAIN NestedStore
                               THEN <<QueryDocumentSnapshot(requests[k].path)>>
                               ELSE <<>>]]

InitNested ==
    /\ IdleValidator
    /\ fireRef = EmptyMap
    /\ props = EmptyMap
    /\ changes = EmptyMap
    /\ items = EmptyMap
    /\ deleted = EmptyMap
    /\ store = NestedStore
    /\ nextId = 1
    /\ docId = EmptyMap
    /\ batch = NoBatch
    /\ last = NoCall
    /\ steps = 0
    /\ \E authors \in [NestedComments -> NestedAuthors] :
           query = [authors |-> authors, cache |-> EmptyMap, tasks |-> <<>>, settled |-> {}]
    /\ registry = NoRegistry

\* The resolver moves on to q.
Nested(op, q) ==
    /\ query' = q
    /\ last' = [op |-> op]
    /\ UNCHANGED <<validatorVars, fireRef, props, changes, items, deleted, store, nextId,
                   docId, batch, steps, registry>>

\* "Continue populating recursively": promises.push(this.execPopulate(...))
\* for each parent, before the await of Promise.all(promises).
Recurse ==
    /\ query.tasks = <<>>
    /\ Nested("recurse",
              LET started == Started(query.authors, 1, query.cache, <<>>)
              IN  [query EXCEPT !.cache = started.cache, !.tasks = started.tasks])

\* The store answers a get: no call that can go on is left waiting by then,
\* the promise jobs run before the answer of the network is handled.
Settle(path) ==
    /\ path \in DOMAIN query.cache
    /\ path \notin query.settled
    /\ \A t \in 1..Len(query.tasks) : ~Resumable(query, t)
    /\ Nested("settle", [query EXCEPT !.settled = @ \cup {path}])

\* The call for a parent goes on after its await.
Resume(t) ==
    /\ t \in 1..Len(query.tasks)
    /\ Resumable(query, t)
    /\ Nested("resume", Resumed(query, t))

NextNested ==
    \/ Recurse
    \/ \E author \in NestedAuthors : Settle(UserPath(author))
    \/ \E t \in 1..Len(NestedParents) : Resume(t)

SpecNested == InitNested /\ [][NextNested]_vars

\* C31: once the call for a parent has gone on, each of its slots whose
\* target exists holds the snapshot fetched for the target.
C31_SlotsHoldTheFetchedSnapshot ==
    ("tasks" \in DOMAIN query /\ "settled" \in DOMAIN query) =>
        \A t \in 1..Len(query.tasks) :
            query.tasks[t].state = "done" =>
                \A k \in 1..Len(query.tasks[t].requests) :
                    query.tasks[t].requests[k].path \in DOMAIN NestedStore =>
                        query.tasks[t].slots[k] =
                            <<QueryDocumentSnapshot(query.tasks[t].requests[k].path)>>

\* ---------------------------------------------------------------------------
\* SpecCycle: save of an unsaved instance of a model with a Reference field of
\* its own type, class Node { @Field() peer: Node }, on every graph of two
\* instances. last holds the call in progress: the frames of the awaited
\* calls of save and validate, the innermost last.
\* ---------------------------------------------------------------------------

Nodes == {"a", "b"}
NoPeer == "none"

\* A call awaited by the one below it, and where it stands.
Frame(op, e, pc) == [op |-> op, e |-> e, pc |-> pc]

\* The frames once a call of op on e is made. The code keeps no trace of the
\* calls in progress, so a call that is already in progress below starts like
\* the first one did; the frames from that one up repeat from then on and are
\* kept once.
Entered(stack, op, e) ==
    LET same == {k \in 1..Len(stack) : stack[k].op = op /\ stack[k].e = e}
    IN  IF same = {} THEN Append(stack, Frame(op, e, "start"))
        ELSE Append(SubSeq(stack, 1, (CHOOSE k \in same : \A j \in same : k <= j) - 1),
                    Frame(op, e, "start"))

\* The innermost call moves to pc, or returns.
Moved(stack, pc) == [stack EXCEPT ![Len(stack)].pc = pc]
Returned(stack) == SubSeq(stack, 1, Len(stack) - 1)

\* Model.save, "Save updated/created references": the instance held by the
\* field is a request with a save unless it has a reference and no change.
NeedsSave(e) ==
    /\ props[e].peer # NoPeer
    /\ ~(fireRef[props[e].peer] # NoRef /\ changes[props[e].peer] = EmptyMap)

InitCycle ==
    /\ IdleValidator
    /\ fireRef = [e \in Nodes |-> NoRef]
    /\ \E peers \in [Nodes -> Nodes \cup {NoPeer}] :
          /\ props = [e \in Nodes |-> [name |-> Str(e), peer |-> peers[e]]]
          /\ changes = [e \in Nodes |->
                           IF peers[e] = NoPeer THEN [name |-> Str(e)]
                           ELSE [name |-> Str(e), peer |-> peers[e]]]
    /\ items = EmptyMap
    /\ deleted = EmptyMap
    /\ store = EmptyMap
    /\ nextId = 1
    /\ docId = EmptyMap
    /\ batch = NoBatch
    /\ last = NoCall
    /\ steps = 0
    /\ query = EmptyMap
    /\ registry = NoRegistry

\* The call in progress moves on; tick is the parity of the steps it has taken.
Running(stack) ==
    /\ last' = [last EXCEPT !.stack = stack, !.tick = 1 - @]
    /\ UNCHANGED <<validatorVars, props, changes, items, deleted, store, docId, batch,
                   steps, query, registry>>

\* node.save({ validate })
CallSave(e, doValidate) ==
    /\ last = NoCall
    /\ last' = [op |-> "save", e |-> e, validate |-> doValidate,
                stack |-> <<Frame("save", e, "start")>>, tick |-> 0]
    /\ UNCHANGED <<validatorVars, fireRef, props, changes, items, deleted, store, nextId,
                   docId, batch, steps, query, registry>>

\* Model.save, "Validate & sanitize data": await this.validate().
SaveValidates ==
    /\ last.op = "save" /\ last.stack # <<>>
    /\ LET top == last.stack[Len(last.stack)]
       IN  /\ top.op = "save" /\ top.pc = "start"
           /\ Running(IF last.validate
                      THEN Entered(Moved(last.stack, "validated"), "validate", top.e)
                      ELSE Moved(last.stack, "validated"))
    /\ UNCHANGED <<fireRef, nextId>>

\* Validator.check, case 'Reference': await value.validate(), and the return
\* of Model.validate once the fields are checked.
ValidateChecks ==
    /\ last.op = "save" /\ last.stack # <<>>
    /\ LET top == last.stack[Len(last.stack)]
       IN  /\ top.op = "validate"
           /\ Running(IF top.pc = "start" /\ "peer" \in DOMAIN changes[top.e]
                      THEN Entered(Moved(last.stack, "checked"), "validate",
                                   changes[top.e].peer)
                      ELSE Returned(last.stack))
    /\ UNCHANGED <<fireRef, nextId>>

\* Model.save, "Save updated/created references": value.save(recParams) and
\* the await of the requests.
SaveReferencesFirst ==
    /\ last.op = "save" /\ last.stack # <<>>
    /\ LET top == last.stack[Len(last.stack)]
       IN  /\ top.op = "save" /\ top.pc = "validated"
           /\ Running(IF NeedsSave(top.e)
                      THEN Entered(Moved(last.stack, "referenced"), "save", props[top.e].peer)
                      ELSE Moved(last.stack, "referenced"))
    /\ UNCHANGED <<fireRef, nextId>>

\* Model.save, "Save the document": the set is queued, the instance gets its
\* reference and the call returns.
SaveWrites ==
    /\ last.op = "save" /\ last.stack # <<>>
    /\ LET top == last.stack[Len(last.stack)]
       IN  /\ top.op = "save" /\ top.pc = "referenced"
           /\ fireRef' = [fireRef EXCEPT ![top.e] =
                             IF @ = NoRef THEN DocPath(NoRef, "nodes", nextId) ELSE @]
           /\ nextId' = IF fireRef[top.e] = NoRef THEN nextId + 1 ELSE nextId
           /\ Running(Returned(last.stack))

NextCycle ==
    \/ \E e \in Nodes, doValidate \in BOOLEAN : CallSave(e, doValidate)
    \/ SaveValidates
    \/ ValidateChecks
    \/ SaveReferencesFirst
    \/ SaveWrites

SpecCycle == InitCycle /\ [][NextCycle]_vars /\ WF_vars(NextCycle)

\* C32: a save of an instance of any graph returns or throws, graphs where two
\* unsaved instances reference each other or one references itself included.
C32_SaveTerminates ==
    <>(last.op = "save" /\ last.stack = <<>>)

-----------------------------------------------------------------------------
(* Further claims on Model.delete *)

\* The instance is as new Model() leaves it: no reference, no id, no field,
\* no change.
Blank(e) ==
    /\ fireRef[e] = NoRef
    /\ docId[e] = Null
    /\ props[e] = EmptyMap
    /\ changes[e] = EmptyMap

\* C33: a delete in its own session that returns true leaves the instance
\* blank; a delete into a caller's session leaves the instance as it was when
\* it returns, and the instance is not reset before that session has
\* committed: not when the executor of a transaction returns.
C33_DeleteResetsOnCommit ==
    /\ (last.op = "delete" /\ last.ret = "true" /\ last.session = NoSession) =>
           Blank(last.e)
    /\ (last.op = "delete" /\ last.ret = "true" /\ last.session # NoSession) =>
           /\ fireRef[last.e] = last.found.ref
           /\ props[last.e] = last.found.props
    /\ last.op = "executor" =>
           \A k \in 1..Len(last.cbs) :
               last.cbs[k].method = "resetProperties" => ~Blank(last.cbs[k].model)

\* ---------------------------------------------------------------------------
\* SpecRemoved: a fetched post whose title was assigned and whose last comment
\* was removed with post.comments.pop(), then saved several times.

InitRemoved ==
    /\ IdleValidator
    /\ fireRef = [e \in Entities |->
                    CASE e \in Posts -> PostRef
                      [] e \in Comments -> CommentRef(e)
                      [] OTHER -> NoRef]
    /\ props = [e \in Entities |->
                    CASE e \in Posts -> [id |-> DocId(1), title |-> Str("world"),
                                         comments |-> Coll(e)]
                      [] e \in Comments ->
                            [id |-> DocId(CommentRef(e)[4]), content |-> Str("ok")]
                      [] OTHER -> EmptyMap]
    /\ changes = [e \in Entities |->
                    IF e \in Posts THEN [title |-> Str("world")] ELSE EmptyMap]
    /\ items = [e \in Posts |-> <<"c1">>]
    /\ deleted = [e \in Posts |-> <<"c2">>]
    /\ store = (PostRef :> [title |-> Str("hello")])
               @@ (CommentRef("c1") :> [content |-> Str("ok")])
               @@ (CommentRef("c2") :> [content |-> Str("ok")])
               @@ (LikeRef :> [value |-> Num(1)])
    /\ nextId = 6
    /\ docId = [e \in Entities |-> Undefined]
    /\ batch = NoBatch
    /\ last = NoCall
    /\ steps = 0
    /\ query = EmptyMap
    /\ registry = NoRegistry

NextRemoved ==
    \/ \E e \in Posts, callbacks \in {"true", "false"}, doValidate \in BOOLEAN,
          session \in {NoSession, Caller} :
          Save(e, callbacks, doValidate, FALSE, session, TRUE)
    \/ \E e \in Posts : Pop(e)
    \/ NewBatch
    \/ Commit

SpecRemoved == InitRemoved /\ [][NextRemoved]_vars

\* The delete writes of the open session on the document at path.
DeletesAt(path) ==
    { i \in 1..Len(batch.ops) : batch.ops[i].kind = "delete" /\ batch.ops[i].path = path }

\* C34: a session that is not committed yet holds at most one delete write
\* for the document of a member removed from a Collection, however many times
\* the owner was saved into it.
C34_RemovedMemberIsDeletedOnce ==
    \A c \in Comments : Cardinality(DeletesAt(CommentRef(c))) <= 1

\* ---------------------------------------------------------------------------
\* SpecBulk: the choice Query.update and Query.delete make between writing
\* the documents read as plain data and saving or deleting a model instance
\* for each.

\* The fields a model of the runs declares, with their schema entries.
BulkFields == {"title", "user", "username", "comments"}
BulkSchemaField(f) ==
    [type |-> CASE f = "user" -> "Reference"
                [] f = "comments" -> "Collection"
                [] OTHER -> "String",
     unique |-> f = "username"]
BulkSchemas ==
    { [f \in fields |-> BulkSchemaField(f)] : fields \in { g \in SUBSET BulkFields : "title" \in g } }

\* Storage.getModelSpecs(model).callbacks: the hooks the class overrides.
RegisteredHooks == SUBSET {"afterSave", "beforeDelete"}

\* The data of an update: for each of its fields whether the value is truthy
\* (a string, an object) or not (null, '').
BulkData == UNION { [fields -> BOOLEAN] : fields \in SUBSET BulkFields }

\* Query.update, the loop over the schema: useModel.
useModelForFields(schema, data) ==
    \E field \in DOMAIN schema :
        \/ (field \in DOMAIN data /\ data[field]) /\ schema[field].type = "Reference"
        \/ schema[field].unique

\* Query.update, useModel.
useModelForUpdate(specs, data, params) ==
    IF params.callbacks # "false" /\ specs.callbacks \cap {"beforeSave", "afterSave"} # {}
    THEN TRUE
    ELSE useModelForFields(specs.schema, data)

\* Query.delete, useModel.
useModelForDelete(specs, params) ==
    IF params.callbacks # "false" /\ specs.callbacks \cap {"beforeDelete", "afterDelete"} # {}
    THEN TRUE
    ELSE \E field \in DOMAIN specs.schema : specs.schema[field].type = "Collection"

\* Query.update on n documents: the validation of the data, the options of
\* this.get and the call made for each result. outcome is what model.validate
\* returns for the data.
bulkUpdate(specs, data, params, outcome, n) ==
    IF ~useModelForUpdate(specs, data, params) /\ params.validate /\ outcome # "valid"
    THEN [ret |-> IF outcome = "invalid" THEN "ValidationError" ELSE "Error",
          useModel |-> FALSE, validated |-> 1, gets |-> <<>>, calls |-> <<>>]
    ELSE [ret |-> "true",
          useModel |-> useModelForUpdate(specs, data, params),
          validated |-> IF ~useModelForUpdate(specs, data, params) /\ params.validate
                        THEN 1 ELSE 0,
          gets |-> <<[returnAsJSON |-> ~useModelForUpdate(specs, data, params)]>>,
          calls |-> [k \in 1..n |-> IF useModelForUpdate(specs, data, params)
                                    THEN "model.save" ELSE "session.update"]]

\* Query.delete on n documents.
bulkDelete(specs, params, n) ==
    [ret |-> "true",
     useModel |-> useModelForDelete(specs, params),
     validated |-> 0,
     gets |-> <<[returnAsJSON |-> ~useModelForDelete(specs, params)]>>,
     calls |-> [k \in 1..n |-> IF useModelForDelete(specs, params)
                               THEN "model.delete" ELSE "session.delete"]]

InitBulk ==
    /\ IdleValidator
    /\ fireRef = EmptyMap
    /\ props = EmptyMap
    /\ changes = EmptyMap
    /\ items = EmptyMap
    /\ deleted = EmptyMap
    /\ store = EmptyMap
    /\ nextId = 1
    /\ docId = EmptyMap
    /\ batch = NoBatch
    /\ last = NoCall
    /\ steps = 0
    /\ \E schema \in BulkSchemas, callbacks \in RegisteredHooks :
           query = [schema |-> schema, callbacks |-> callbacks]
    /\ registry = NoRegistry

\* One call is made in a run: its choice does not depend on the calls before.
BulkCalled(op, data, params, r) ==
    /\ last = NoCall
    /\ last' = [op |-> op, data |-> data, params |-> params, ret |-> r.ret,
                useModel |-> r.useModel, validated |-> r.validated, gets |-> r.gets,
                calls |-> r.calls]
    /\ UNCHANGED <<validatorVars, fireRef, props, changes, items, deleted, store, nextId,
                   docId, batch, steps, query, registry>>

\* await new Query(model).update(data, { callbacks, validate })
BulkUpdate(data, callbacks, doValidate, outcome, n) ==
    BulkCalled("update", data, [callbacks |-> callbacks, validate |-> doValidate],
               bulkUpdate(query, data, [callbacks |-> callbacks, validate |-> doValidate],
                          outcome, n))

\* await new Query(model).delete({ callbacks })
BulkDelete(callbacks, n) ==
    BulkCalled("delete", EmptyMap, [callbacks |-> callbacks],
               bulkDelete(query, [callbacks |-> callbacks], n))

NextBulk ==
    \/ \E data \in BulkData, callbacks \in {"true", "false", "afterSave"},
          doValidate \in BOOLEAN, outcome \in {"valid", "invalid", "empty"},
          n \in 0..MaxResults :
          BulkUpdate(data, callbacks, doValidate, outcome, n)
    \/ \E callbacks \in {"true", "false", "beforeDelete"}, n \in 0..MaxResults :
          BulkDelete(callbacks, n)

SpecBulk == InitBulk /\ [][NextBulk]_vars

\* A hook of the names is registered and the options do not disable the hooks.
HooksEnabled(names) ==
    last.params.callbacks # "false" /\ query.callbacks \cap names # {}

\* C35: an update that writes plain data (no instance, no hook, at most one
\* validation) was made with no save hook registered and enabled and with no
\* Reference, unique or Collection field in its data; a delete that writes
\* plain data was made with no delete hook registered and enabled on a model
\* without a Collection field; every other call works on model instances.
C35_RawPathOnlyWhenNothingNeedsAModel ==
    /\ (last.op = "update" /\ ~last.useModel) =>
           /\ ~HooksEnabled({"beforeSave", "afterSave"})
           /\ \A field \in DOMAIN last.data \cap DOMAIN query.schema :
                  /\ query.schema[field].type \notin {"Reference", "Collection"}
                  /\ ~query.schema[field].unique
    /\ (last.op = "delete" /\ ~last.useModel) =>
           /\ ~HooksEnabled({"beforeDelete", "afterDelete"})
           /\ \A field \in DOMAIN query.schema : query.schema[field].type # "Collection"
    /\ last.op \in {"update", "delete"} =>
           /\ \A k \in 1..Len(last.calls) :
                  last.calls[k] \in {"model.save", "model.delete"} <=> last.useModel
           /\ ~last.useModel => last.validated <= 1

-----------------------------------------------------------------------------
(* Further claims on the query resolver *)

\* C36: an execution of a resolver that was executed before fetches every
\* target its populated slots point to: it takes none from the cache the
\* first execution left.
C36_SecondExecutionFetchesAgain ==
    (last.op = "get" /\ last.run > 1) =>
        \A k \in 1..Len(last.requests) : Len(FetchesOf(last.requests[k].path)) >= 1

\* ---------------------------------------------------------------------------
\* SpecConstruct: new TypePost(data, refOrSnap) for a class with a default in
\* its static schema (kind), a default given by a field initializer (status)
\* and a field without default (title).

ConstructFields == {"title", "status", "kind"}
ConstructValues == {Str("draft"), Str("published")}

\* Storage.getModelSpecs(model).defaults of the classes of the runs.
ConstructSpecs ==
    { [defaults |-> [schema |-> s, instance |-> i]] :
        s \in {EmptyMap, [kind |-> Str("draft")]},
        i \in {EmptyMap, [status |-> Str("draft")]} }

\* The data handed to the constructor.
ConstructData == UNION { [fields -> ConstructValues] : fields \in SUBSET ConstructFields }

\* A map without one key.
WithoutKey(map, key) == [k \in DOMAIN map \ {key} |-> map[k]]

\* ModelHandler.set on a string property that is no method and needs no
\* conversion: an instance default not seen yet is skipped once, any other
\* value is recorded when tracking is on, and assigned.
handlerSet(obj, prop, value) ==
    IF prop \in DOMAIN obj.skipDef
    THEN [obj EXCEPT !.skipDef = WithoutKey(@, prop)]
    ELSE [obj EXCEPT !.changes = IF obj.tracking THEN (prop :> value) @@ @ ELSE @,
                     !.props = (prop :> value) @@ @]

RECURSIVE ObjectAssign(_, _)

\* Object.assign(proxy, data)
ObjectAssign(obj, data) ==
    IF data = EmptyMap THEN obj
    ELSE ObjectAssign(handlerSet(obj, CHOOSE f \in DOMAIN data : TRUE,
                                 data[CHOOSE f \in DOMAIN data : TRUE]),
                      WithoutKey(data, CHOOSE f \in DOMAIN data : TRUE))

\* Model.constructor, "if (!refOrSnap)": the defaults enter the data where the
\* caller gave no value.
WithDefaults(specs, data, refOrSnap) ==
    IF refOrSnap = "none"
    THEN data @@ specs.defaults.instance @@ specs.defaults.schema
    ELSE data

\* Model.constructor: the primary key of a reference, the symbols, the data
\* assigned through the proxy with tracking on for a new instance only, then
\* skipDef and tracking.
constructed(specs, data, refOrSnap) ==
    [ObjectAssign([props |-> IF refOrSnap = "ref" /\ "id" \notin DOMAIN data
                             THEN [id |-> DocId(1)] ELSE EmptyMap,
                   changes |-> EmptyMap,
                   tracking |-> refOrSnap = "none",
                   skipDef |-> EmptyMap],
                  WithDefaults(specs, data, refOrSnap))
        EXCEPT !.skipDef = specs.defaults.instance, !.tracking = TRUE]

\* new TypePost(data, refOrSnap): the constructor of Model, then the field
\* initializers of the class, which assign through the proxy.
instantiated(specs, data, refOrSnap) ==
    ObjectAssign(constructed(specs, data, refOrSnap), specs.defaults.instance)

InitConstruct ==
    /\ IdleValidator
    /\ fireRef = EmptyMap
    /\ props = EmptyMap
    /\ changes = EmptyMap
    /\ items = EmptyMap
    /\ deleted = EmptyMap
    /\ store = EmptyMap
    /\ nextId = 1
    /\ docId = EmptyMap
    /\ batch = NoBatch
    /\ last = NoCall
    /\ steps = 0
    /\ \E specs \in ConstructSpecs : query = specs
    /\ registry = NoRegistry

\* The instance the call returned is the instance p of the run.
Constructed(data, refOrSnap, obj) ==
    /\ fireRef' = ("p" :> IF refOrSnap = "none" THEN NoRef ELSE PostRef)
    /\ props' = ("p" :> obj.props)
    /\ changes' = ("p" :> obj.changes)
    /\ docId' = ("p" :> Null)
    /\ last' = [op |-> "new", data |-> data, refOrSnap |-> refOrSnap,
                tracking |-> obj.tracking, skipDef |-> obj.skipDef]
    /\ UNCHANGED <<validatorVars, items, deleted, store, nextId, batch, steps, query,
                   registry>>

\* p = new TypePost(data) and p = new TypePost(data, refOrSnap)
NewInstance(data, refOrSnap) == Constructed(data, refOrSnap, instantiated(query, data, refOrSnap))

NextConstruct ==
    \E data \in ConstructData, refOrSnap \in {"none", "ref", "snap"} : NewInstance(data, refOrSnap)

SpecConstruct == InitConstruct /\ [][NextConstruct]_vars

\* C37: right after construction the change-set holds the fields the caller
\* passed and no other, for a new instance; it is empty for an instance built
\* on a reference or a snapshot.
C37_DefaultsAreNotChanges ==
    last.op = "new" =>
        IF last.refOrSnap = "none"
        THEN changes["p"] = last.data
        ELSE changes["p"] = EmptyMap

\* ---------------------------------------------------------------------------
\* SpecWatcher: two saved users whose fields hold plain objects, mutated
\* through the proxies of ModelHandler.get and ObjectWatcher.
\*   o1 = { zipcode: 1, location: o2, list: [o5] }   o2 = { lat: 1, inner: o3 }
\*   o3 = { x: 1 }   o4 = { zipcode: 1 }   o5 = { x: 1 }
\* An object is an entry of props like an instance; the symbols model and
\* prop defined on it are two of its properties.

Owners == {"a", "b"}
PlainObjects == {"o1", "o2", "o3", "o4", "o5"}
TopObjects == {"o1", "o4"}
OwnerFields == {"address", "extra"}
WatchedKeys == {"zipcode", "x", "newProp"}

\* A value that is a plain object, and one that is an array of one.
Plain(o) == [t |-> "Object", o |-> o]
ListOf(o) == [t |-> "Array", o |-> o]

\* The accesses of the runs: model.field, then the keys of the path.
WatchedPaths == { <<>>, <<"location">>, <<"location", "inner">>, <<"list">> }

InitWatcher ==
    /\ IdleValidator
    /\ fireRef = [e \in Owners |-> DocPath(NoRef, PathOf("User"), IF e = "a" THEN 1 ELSE 2)]
    /\ props = [e \in Owners |-> [address |-> Plain(IF e = "a" THEN "o1" ELSE "o4")]]
               @@ [o1 |-> [zipcode |-> Num(1), location |-> Plain("o2"), list |-> ListOf("o5")],
                   o2 |-> [lat |-> Num(1), inner |-> Plain("o3")],
                   o3 |-> [x |-> Num(1)],
                   o4 |-> [zipcode |-> Num(1)],
                   o5 |-> [x |-> Num(1)]]
    /\ changes = [e \in Owners |-> EmptyMap]
    /\ items = EmptyMap
    /\ deleted = EmptyMap
    /\ store = EmptyMap
    /\ nextId = 1
    /\ docId = [e \in Owners |-> Undefined]
    /\ batch = NoBatch
    /\ last = NoCall
    /\ steps = 0
    /\ query = EmptyMap
    /\ registry = NoRegistry

\* Object.defineProperty(o, Symbol.for('model'), ...) and (o, Symbol.for('prop'), ...)
Tagged(p, o, model, prop) ==
    [p EXCEPT ![o] = [k \in DOMAIN @ \cup {"Symbol(model)", "Symbol(prop)"} |->
                        IF k = "Symbol(model)" THEN model
                        ELSE IF k = "Symbol(prop)" THEN prop
                        ELSE @[k]]]

\* ModelHandler.get on a field that holds a plain object, with tracking on:
\* the object gets the symbols when it has none yet, and comes in a proxy.
handlerGet(p, e, field) ==
    IF "Symbol(model)" \in DOMAIN p[p[e][field].o]
    THEN [p |-> p, target |-> p[e][field].o, watched |-> TRUE]
    ELSE [p |-> Tagged(p, p[e][field].o, e, field), target |-> p[e][field].o,
          watched |-> TRUE]

\* obj[prop] of what an access returned: ObjectWatcher.get when it is a proxy,
\* which hands the symbols of the object on to a plain object it holds and
\* returns it in a proxy; an array is returned as it is, and so is what is
\* read from it.
watcherGet(r, key) ==
    IF ~r.watched
    THEN [p |-> r.p, target |-> r.p[r.target][key].o, watched |-> FALSE]
    ELSE IF r.p[r.target][key].t = "Object"
    THEN [p |-> Tagged(r.p, r.p[r.target][key].o,
                       r.p[r.target]["Symbol(model)"], r.p[r.target]["Symbol(prop)"]),
          target |-> r.p[r.target][key].o, watched |-> TRUE]
    ELSE [p |-> r.p, target |-> r.p[r.target][key].o, watched |-> FALSE]

RECURSIVE Reached(_, _, _)

\* model.field.k1.k2...: the object the path ends at.
Reached(r, path, i) ==
    IF i > Len(path) THEN r ELSE Reached(watcherGet(r, path[i]), path, i + 1)

\* ObjectWatcher.recordChange: model[changes][prop] = model[prop], with the
\* model and the prop of the symbols of the object.
recordChange(c, p, o) ==
    [c EXCEPT ![p[o]["Symbol(model)"]] =
        (p[o]["Symbol(prop)"] :>
            IF p[o]["Symbol(prop)"] \in DOMAIN p[p[o]["Symbol(model)"]]
            THEN p[p[o]["Symbol(model)"]][p[o]["Symbol(prop)"]]
            ELSE Undefined) @@ @]

\* The mutation has been made on what the access r returned.
Watched(op, e, field, path, key, r, recorded) ==
    /\ steps < MaxEdits
    /\ steps' = steps + 1
    /\ changes' = (IF recorded THEN recordChange(changes, r.p, r.target) ELSE changes)
    /\ props' = [r.p EXCEPT ![r.target] =
                    IF op = "set" THEN (key :> Num(2)) @@ @ ELSE WithoutKey(@, key)]
    /\ last' = [op |-> op, e |-> e, field |-> field, path |-> path, key |-> key,
                existed |-> key \in DOMAIN props[r.target], before |-> changes]
    /\ UNCHANGED <<validatorVars, fireRef, items, deleted, store, nextId, docId, batch,
                   query, registry>>

\* The path can be followed from model.field.
Followed(e, field, path) ==
    /\ field \in DOMAIN props[e]
    /\ path # <<>> => props[e][field].o = "o1"

\* model.field.k1...kn.key = 2: the set trap of ObjectWatcher records the
\* change, then assigns; an object that is no proxy is just assigned to.
SetKey(e, field, path, key) ==
    /\ Followed(e, field, path)
    /\ Watched("set", e, field, path, key, Reached(handlerGet(props, e, field), path, 1),
               Reached(handlerGet(props, e, field), path, 1).watched)

\* delete model.field.k1...kn.key: the deleteProperty trap of ObjectWatcher
\* records the change when the object has the key.
DeleteKey(e, field, path, key) ==
    /\ Followed(e, field, path)
    /\ Watched("delete", e, field, path, key,
               Reached(handlerGet(props, e, field), path, 1),
               /\ Reached(handlerGet(props, e, field), path, 1).watched
               /\ key \in DOMAIN props[Reached(handlerGet(props, e, field), path, 1).target])

\* model.field = o, with an object another field may hold already:
\* ModelHandler.set records the value and assigns it.
AssignObject(e, field, o) ==
    /\ steps < MaxEdits
    /\ steps' = steps + 1
    /\ props' = [props EXCEPT ![e] = (field :> Plain(o)) @@ @]
    /\ changes' = [changes EXCEPT ![e] = (field :> Plain(o)) @@ @]
    /\ last' = NoCall
    /\ UNCHANGED <<validatorVars, fireRef, items, deleted, store, nextId, docId, batch,
                   query, registry>>

\* model.resetChanges(), as the commit of a save calls it.
ResetChanges(e) ==
    /\ steps < MaxEdits
    /\ steps' = steps + 1
    /\ changes' = [changes EXCEPT ![e] = EmptyMap]
    /\ last' = NoCall
    /\ UNCHANGED <<validatorVars, fireRef, props, items, deleted, store, nextId, docId,
                   batch, query, registry>>

NextWatcher ==
    \/ \E e \in Owners, field \in OwnerFields, path \in WatchedPaths, key \in WatchedKeys :
          SetKey(e, field, path, key)
    \/ \E e \in Owners, field \in OwnerFields, path \in WatchedPaths, key \in WatchedKeys :
          DeleteKey(e, field, path, key)
    \/ \E e \in Owners, field \in OwnerFields, o \in TopObjects : AssignObject(e, field, o)
    \/ \E e \in Owners : ResetChanges(e)

SpecWatcher == InitWatcher /\ [][NextWatcher]_vars

\* C38: once a key was assigned, or a key that existed was deleted, in an
\* object reached from model.field, at any depth, the change-set of the model
\* holds the field with the value the model has for it; the deletion of a key
\* that did not exist leaves every change-set as it was.
C38_NestedMutationIsRecorded ==
    /\ (last.op = "set" \/ (last.op = "delete" /\ last.existed)) =>
           /\ last.field \in DOMAIN changes[last.e]
           /\ changes[last.e][last.field] = props[last.e][last.field]
    /\ (last.op = "delete" /\ ~last.existed) => changes = last.before

\* ---------------------------------------------------------------------------
\* SpecDescriptor: Post.find().sort(...), .select(...) and .populate(...)
\* called with a string and with the structured form. A string is the
\* sequence of its parts: a field name, "," or " ".

MaxNames == 3

DescriptorFields == {"id", "title", "user", "comments"}

\* The lists of field names of the runs, without repeats.
NameLists ==
    { names \in UNION { [1..n -> DescriptorFields] : n \in 1..MaxNames } :
        \A i, j \in 1..Len(names) : names[i] = names[j] => i = j }

RECURSIVE CommaSeparated(_, _)

\* 'title,user' and 'title, user'
CommaSeparated(names, spaced) ==
    IF Len(names) = 1 THEN <<names[1]>>
    ELSE <<names[1], ",">> \o (IF spaced THEN <<" ">> ELSE <<>>)
         \o CommaSeparated(Tail(names), spaced)

\* The arguments of the builders.
StringArg(string) == [t |-> "string", v |-> string]
ListArg(list) == [t |-> "array", v |-> list]
MapArg(entries) == [t |-> "object", v |-> entries]

\* The structured forms of a list of names: { name: 'asc', ... },
\* [name, ...] and { name: { fields: null }, ... }.
AscendingMap(names) == MapArg([k \in 1..Len(names) |-> <<(<<names[k]>>), "asc">>])
FieldList(names) == ListArg([k \in 1..Len(names) |-> <<names[k]>>])
QueryMap(names) == MapArg([k \in 1..Len(names) |-> <<(<<names[k]>>), [fields |-> Null]>>])

RECURSIVE split(_, _, _)

\* String.prototype.split(','), from the i-th part on, with the piece begun.
split(string, i, piece) ==
    IF i > Len(string) THEN <<piece>>
    ELSE IF string[i] = "," THEN <<piece>> \o split(string, i + 1, <<>>)
    ELSE split(string, i + 1, Append(piece, string[i]))

RECURSIVE trim(_)

\* String.prototype.trim()
trim(string) ==
    IF string = <<>> THEN string
    ELSE IF Head(string) = " " THEN trim(Tail(string))
    ELSE IF string[Len(string)] = " " THEN trim(SubSeq(string, 1, Len(string) - 1))
    ELSE string

\* fields.split(',').map(field => field.trim())
SplitTrimmed(string) ==
    [k \in 1..Len(split(string, 1, <<>>)) |-> trim(split(string, 1, <<>>)[k])]

\* Query.sort: a string is one field, ascending; the primary key becomes
\* __name__.
sort(fields) ==
    [k \in 1..Len(IF fields.t = "string" THEN << <<fields.v, "asc">> >> ELSE fields.v) |->
        << IF (IF fields.t = "string" THEN fields.v ELSE fields.v[k][1]) = <<"id">>
           THEN <<"__name__">>
           ELSE (IF fields.t = "string" THEN fields.v ELSE fields.v[k][1]),
           IF fields.t = "string" THEN "asc" ELSE fields.v[k][2] >>]

\* Query.select
select(fields) == IF fields.t = "string" THEN SplitTrimmed(fields.v) ELSE fields.v

\* Query.formatPopulate, the first two steps: a string becomes an array, an
\* array an object with { fields: null } for each field.
PopulateObject(queries) ==
    IF queries.t = "string"
    THEN [k \in 1..Len(SplitTrimmed(queries.v)) |->
            <<SplitTrimmed(queries.v)[k], [fields |-> Null]>>]
    ELSE IF queries.t = "array"
    THEN [k \in 1..Len(queries.v) |-> <<queries.v[k], [fields |-> Null]>>]
    ELSE queries.v

\* Query.formatPopulate on queries without options: it throws on a field
\* that is not in the schema or is no Reference and no Collection.
formatPopulate(queries, model) ==
    IF \E k \in 1..Len(PopulateObject(queries)) :
          \/ Len(PopulateObject(queries)[k][1]) # 1
          \/ PopulateObject(queries)[k][1][1] \notin DOMAIN RoundTripSchema(model)
          \/ ~Relational(RoundTripSchema(model)[PopulateObject(queries)[k][1][1]])
    THEN [threw |-> TRUE, populate |-> Null]
    ELSE [threw |-> FALSE, populate |-> PopulateObject(queries)]

\* new Query(Post)
InitDescriptor ==
    /\ IdleValidator
    /\ fireRef = EmptyMap
    /\ props = EmptyMap
    /\ changes = EmptyMap
    /\ items = EmptyMap
    /\ deleted = EmptyMap
    /\ store = EmptyMap
    /\ nextId = 1
    /\ docId = EmptyMap
    /\ batch = NoBatch
    /\ last = NoCall
    /\ steps = 0
    /\ query = [fields |-> Null, sort |-> Null, populate |-> Null]
    /\ registry = NoRegistry

\* A builder was called on the new resolver and has set the descriptor to q.
Described(op, form, names, threw, q) ==
    /\ last = NoCall
    /\ query' = q
    /\ last' = [op |-> op, form |-> form, names |-> names,
                ret |-> IF threw THEN "Error" ELSE "ok"]
    /\ UNCHANGED <<validatorVars, fireRef, props, changes, items, deleted, store, nextId,
                   docId, batch, steps, registry>>

\* query.sort(fields)
SortBy(form, names, fields) ==
    Described("sort", form, names, FALSE, [query EXCEPT !.sort = sort(fields)])

\* query.select(fields)
SelectFields(form, names, fields) ==
    Described("select", form, names, FALSE, [query EXCEPT !.fields = select(fields)])

\* query.populate(queries)
PopulateFields(form, names, queries) ==
    Described("populate", form, names, formatPopulate(queries, "Post").threw,
              IF formatPopulate(queries, "Post").threw THEN query
              ELSE [query EXCEPT !.populate = formatPopulate(queries, "Post").populate])

NextDescriptor ==
    \/ \E names \in NameLists, spaced \in BOOLEAN :
          \/ SortBy("string", names, StringArg(CommaSeparated(names, spaced)))
          \/ SelectFields("string", names, StringArg(CommaSeparated(names, spaced)))
          \/ PopulateFields("string", names, StringArg(CommaSeparated(names, spaced)))
    \/ \E names \in NameLists :
          \/ SortBy("structured", names, AscendingMap(names))
          \/ SelectFields("structured", names, FieldList(names))
          \/ PopulateFields("structured", names, QueryMap(names))

SpecDescriptor == InitDescriptor /\ [][NextDescriptor]_vars

\* C39: the descriptor a builder leaves when it is called with the names in
\* a comma-separated string is the one it leaves when it is called with the
\* structured form of the same names, and the sort never names the primary
\* key.
C39_StringAndStructuredFormsAgree ==
    /\ (last.op = "sort" /\ last.form = "string") =>
           query.sort = sort(AscendingMap(last.names))
    /\ (last.op = "select" /\ last.form = "string") =>
           query.fields = select(FieldList(last.names))
    /\ (last.op = "populate" /\ last.form = "string") =>
           /\ (last.ret = "Error") = formatPopulate(QueryMap(last.names), "Post").threw
           /\ last.ret = "ok" =>
                  query.populate = formatPopulate(QueryMap(last.names), "Post").populate
    /\ last.op = "sort" => \A k \in 1..Len(query.sort) : query.sort[k][1] # <<"id">>

-----------------------------------------------------------------------------
(* Claims on the callbacks option *)

\* The hooks of a name that the last call queued in the caller's session or
\* that the commit of its own session has run, for the instance of the call.
HooksAfter(name) ==
    SelectSeq(last.queued \o last.ran, LAMBDA cb : cb.model = last.e /\ cb.method = name)

\* C40: a save with callbacks: 'beforeSave' returns false when the hook
\* does, and follows no afterSave; a save with callbacks: 'afterSave' is not
\* stopped by the beforeSave hook and, when it returns true, is followed by
\* afterSave; delete does the same with 'beforeDelete' and 'afterDelete'.
C40_CallbacksAreSelectedByName ==
    /\ (last.op = "save" /\ last.callbacks = "beforeSave") =>
           /\ ~last.before => last.ret = "false"
           /\ HooksAfter("afterSave") = <<>>
    /\ (last.op = "save" /\ last.callbacks = "afterSave") =>
           /\ (~last.before /\ last.found.changes # EmptyMap) => last.ret # "false"
           /\ last.ret = "true" => Len(HooksAfter("afterSave")) = 1
    /\ (last.op = "delete" /\ last.callbacks = "beforeDelete") =>
           /\ ~last.before => last.ret = "false"
           /\ HooksAfter("afterDelete") = <<>>
    /\ (last.op = "delete" /\ last.callbacks = "afterDelete") =>
           /\ (~last.before /\ last.found.exists) => last.ret # "false"
           /\ last.ret = "true" => Len(HooksAfter("afterDelete")) = 1

====
